---- MODULE Spec2Model ----
(***************************************************************************)
(* AOS-Kernel: gated execution and self-healing orchestration.             *)
(*                                                                         *)
(* The model covers the task state (core/state.py), the permission gateway *)
(* (core/permission_gateway.py), ExecutionAgent.run, VerificationAgent     *)
(* .verify, RecoveryAgent.recover and the top-level loop run_full_pipeline *)
(* (main.py).  Text is a sequence of characters (one-character strings; a  *)
(* CJK character is written by its code point, e.g. "U5199"), so that the  *)
(* gateway's substring and path rules are computed, not assumed.           *)
(***************************************************************************)
EXTENDS Integers, Sequences, FiniteSets, TLC

(***************************************************************************)
(* Bounds of the model.                                                    *)
(***************************************************************************)
\* longest plan the planner hands over (calls made directly)
MaxPlan == 1
\* longest plan the planner hands over to run_full_pipeline
PipeMaxPlan == 2
\* most steps one strategist reply carries
MaxNew == 1
\* largest step_id a strategist reply names explicitly
MaxId == 1
\* RecoveryAgent(max_retries=...): the retry ceiling of the instance
max_retries == 1
\* recover on its own: longest plan before the call
RecMaxPlan == 2
\* recover on its own: most steps one strategist reply carries
RecMaxNew == 2
\* recover on its own: largest step_id a strategist reply names explicitly
RecMaxId == 3
\* containers one DockerManager starts in a behaviour
DockMaxContainers == 3

(***************************************************************************)
(* Text helpers (Python str operations used by the gateway).  The tables   *)
(* are those of Python 3.11.  They are defined on the characters of        *)
(* Alphabet and on no other: ASCII, Latin-1, the combining diacritical      *)
(* marks, general punctuation, CJK symbols and punctuation, the half- and   *)
(* full-width forms, every space character, the ideographs of the gateway's *)
(* keywords and a sample of the other scripts and symbols (Greek with the   *)
(* final sigma, Cyrillic, Latin Extended, ligatures, arrows, currency,      *)
(* emoji, private-use and unassigned code points), closed under str.lower   *)
(* and str.upper.                                                           *)
(***************************************************************************)
LowerLetters == {"a","b","c","d","e","f","g","h","i","j","k","l","m",
                 "n","o","p","q","r","s","t","u","v","w","x","y","z"}
UpperLetters == {"A","B","C","D","E","F","G","H","I","J","K","L","M",
                 "N","O","P","Q","R","S","T","U","V","W","X","Y","Z"}
Digits == {"0","1","2","3","4","5","6","7","8","9"}

\* str.isspace(): what str.strip() removes and the regex class \s matches (every
\* such character of Unicode)
Whitespace ==
    { "\t", "\n", "U000B", "\f", "\r", "U001C", "U001D", "U001E", "U001F", " ", "U0085", "U00A0",
      "U1680", "U2000", "U2001", "U2002", "U2003", "U2004", "U2005", "U2006", "U2007", "U2008",
      "U2009", "U200A", "U2028", "U2029", "U202F", "U205F", "U3000" }

\* the characters of the alphabet that \w matches (str pattern: Unicode-aware)
WordChars ==
    { "0", "1", "2", "3", "4", "5", "6", "7", "8", "9", "A", "B", "C", "D", "E", "F", "G", "H",
      "I", "J", "K", "L", "M", "N", "O", "P", "Q", "R", "S", "T", "U", "V", "W", "X", "Y", "Z",
      "_", "a", "b", "c", "d", "e", "f", "g", "h", "i", "j", "k", "l", "m", "n", "o", "p", "q",
      "r", "s", "t", "u", "v", "w", "x", "y", "z", "U00AA", "U00B2", "U00B3", "U00B5", "U00B9",
      "U00BA", "U00BC", "U00BD", "U00BE", "U00C0", "U00C1", "U00C2", "U00C3", "U00C4", "U00C5",
      "U00C6", "U00C7", "U00C8", "U00C9", "U00CA", "U00CB", "U00CC", "U00CD", "U00CE", "U00CF",
      "U00D0", "U00D1", "U00D2", "U00D3", "U00D4", "U00D5", "U00D6", "U00D8", "U00D9", "U00DA",
      "U00DB", "U00DC", "U00DD", "U00DE", "U00DF", "U00E0", "U00E1", "U00E2", "U00E3", "U00E4",
      "U00E5", "U00E6", "U00E7", "U00E8", "U00E9", "U00EA", "U00EB", "U00EC", "U00ED", "U00EE",
      "U00EF", "U00F0", "U00F1", "U00F2", "U00F3", "U00F4", "U00F5", "U00F6", "U00F8", "U00F9",
      "U00FA", "U00FB", "U00FC", "U00FD", "U00FE", "U00FF", "U0130", "U0131", "U0141", "U0142",
      "U0149", "U015E", "U015F", "U0178", "U0179", "U017A", "U017F", "U02BC", "U0391", "U0394",
      "U0399", "U039C", "U03A3", "U03A9", "U03B1", "U03B4", "U03B9", "U03BC", "U03C2", "U03C3",
      "U03C9", "U0410", "U0414", "U0430", "U0434", "U1E9E", "U2126", "U212A", "U212B", "U3005",
      "U3006", "U3007", "U3021", "U3022", "U3023", "U3024", "U3025", "U3026", "U3027", "U3028",
      "U3029", "U3031", "U3032", "U3033", "U3034", "U3035", "U3038", "U3039", "U303A", "U303B",
      "U303C", "U4E8C", "U4EF6", "U5165", "U5199", "U521B", "U5220", "U5236", "U56DE", "U5EFA",
      "U5F55", "U6587", "U67E5", "U7684", "U76EE", "U770B", "U7CFB", "U7EDC", "U7EDF", "U7F51",
      "U8FD4", "U8FDB", "U9664", "UFB01", "UFB05", "UFF10", "UFF11", "UFF12", "UFF13", "UFF14",
      "UFF15", "UFF16", "UFF17", "UFF18", "UFF19", "UFF21", "UFF22", "UFF23", "UFF24", "UFF25",
      "UFF26", "UFF27", "UFF28", "UFF29", "UFF2A", "UFF2B", "UFF2C", "UFF2D", "UFF2E", "UFF2F",
      "UFF30", "UFF31", "UFF32", "UFF33", "UFF34", "UFF35", "UFF36", "UFF37", "UFF38", "UFF39",
      "UFF3A", "UFF41", "UFF42", "UFF43", "UFF44", "UFF45", "UFF46", "UFF47", "UFF48", "UFF49",
      "UFF4A", "UFF4B", "UFF4C", "UFF4D", "UFF4E", "UFF4F", "UFF50", "UFF51", "UFF52", "UFF53",
      "UFF54", "UFF55", "UFF56", "UFF57", "UFF58", "UFF59", "UFF5A", "UFF66", "UFF67", "UFF68",
      "UFF69", "UFF6A", "UFF6B", "UFF6C", "UFF6D", "UFF6E", "UFF6F", "UFF70", "UFF71", "UFF72",
      "UFF73", "UFF74", "UFF75", "UFF76", "UFF77", "UFF78", "UFF79", "UFF7A", "UFF7B", "UFF7C",
      "UFF7D", "UFF7E", "UFF7F", "UFF80", "UFF81", "UFF82", "UFF83", "UFF84", "UFF85", "UFF86",
      "UFF87", "UFF88", "UFF89", "UFF8A", "UFF8B", "UFF8C", "UFF8D", "UFF8E", "UFF8F", "UFF90",
      "UFF91", "UFF92", "UFF93", "UFF94", "UFF95", "UFF96", "UFF97", "UFF98", "UFF99", "UFF9A",
      "UFF9B", "UFF9C", "UFF9D", "UFF9E", "UFF9F", "UFFA0", "UFFA1", "UFFA2", "UFFA3", "UFFA4",
      "UFFA5", "UFFA6", "UFFA7", "UFFA8", "UFFA9", "UFFAA", "UFFAB", "UFFAC", "UFFAD", "UFFAE",
      "UFFAF", "UFFB0", "UFFB1", "UFFB2", "UFFB3", "UFFB4", "UFFB5", "UFFB6", "UFFB7", "UFFB8",
      "UFFB9", "UFFBA", "UFFBB", "UFFBC", "UFFBD", "UFFBE", "UFFC2", "UFFC3", "UFFC4", "UFFC5",
      "UFFC6", "UFFC7", "UFFCA", "UFFCB", "UFFCC", "UFFCD", "UFFCE", "UFFCF", "UFFD2", "UFFD3",
      "UFFD4", "UFFD5", "UFFD6", "UFFD7", "UFFDA", "UFFDB", "UFFDC" }

\* the characters of the alphabet that \w does not match
NonWordChars ==
    { "U0000", "U0001", "U0002", "U0003", "U0004", "U0005", "U0006", "U0007", "U0008", "\t",
      "\n", "U000B", "\f", "\r", "U000E", "U000F", "U0010", "U0011", "U0012", "U0013", "U0014",
      "U0015", "U0016", "U0017", "U0018", "U0019", "U001A", "U001B", "U001C", "U001D", "U001E",
      "U001F", " ", "!", "\"", "#", "$", "%", "&", "'", "(", ")", "*", "+", ",", "-", ".", "/",
      ":", ";", "<", "=", ">", "?", "@", "[", "\\", "]", "^", "U0060", "{", "|", "}", "~",
      "U007F", "U0080", "U0081", "U0082", "U0083", "U0084", "U0085", "U0086", "U0087", "U0088",
      "U0089", "U008A", "U008B", "U008C", "U008D", "U008E", "U008F", "U0090", "U0091", "U0092",
      "U0093", "U0094", "U0095", "U0096", "U0097", "U0098", "U0099", "U009A", "U009B", "U009C",
      "U009D", "U009E", "U009F", "U00A0", "U00A1", "U00A2", "U00A3", "U00A4", "U00A5", "U00A6",
      "U00A7", "U00A8", "U00A9", "U00AB", "U00AC", "U00AD", "U00AE", "U00AF", "U00B0", "U00B1",
      "U00B4", "U00B6", "U00B7", "U00B8", "U00BB", "U00BF", "U00D7", "U00F7", "U0300", "U0301",
      "U0302", "U0303", "U0304", "U0305", "U0306", "U0307", "U0308", "U0309", "U030A", "U030B",
      "U030C", "U030D", "U030E", "U030F", "U0310", "U0311", "U0312", "U0313", "U0314", "U0315",
      "U0316", "U0317", "U0318", "U0319", "U031A", "U031B", "U031C", "U031D", "U031E", "U031F",
      "U0320", "U0321", "U0322", "U0323", "U0324", "U0325", "U0326", "U0327", "U0328", "U0329",
      "U032A", "U032B", "U032C", "U032D", "U032E", "U032F", "U0330", "U0331", "U0332", "U0333",
      "U0334", "U0335", "U0336", "U0337", "U0338", "U0339", "U033A", "U033B", "U033C", "U033D",
      "U033E", "U033F", "U0340", "U0341", "U0342", "U0343", "U0344", "U0345", "U0346", "U0347",
      "U0348", "U0349", "U034A", "U034B", "U034C", "U034D", "U034E", "U034F", "U0350", "U0351",
      "U0352", "U0353", "U0354", "U0355", "U0356", "U0357", "U0358", "U0359", "U035A", "U035B",
      "U035C", "U035D", "U035E", "U035F", "U0360", "U0361", "U0362", "U0363", "U0364", "U0365",
      "U0366", "U0367", "U0368", "U0369", "U036A", "U036B", "U036C", "U036D", "U036E", "U036F",
      "U0378", "U0387", "U0E3F", "U1680", "U2000", "U2001", "U2002", "U2003", "U2004", "U2005",
      "U2006", "U2007", "U2008", "U2009", "U200A", "U200B", "U200C", "U200D", "U200E", "U200F",
      "U2010", "U2011", "U2012", "U2013", "U2014", "U2015", "U2016", "U2017", "U2018", "U2019",
      "U201A", "U201B", "U201C", "U201D", "U201E", "U201F", "U2020", "U2021", "U2022", "U2023",
      "U2024", "U2025", "U2026", "U2027", "U2028", "U2029", "U202A", "U202B", "U202C", "U202D",
      "U202E", "U202F", "U2030", "U2031", "U2032", "U2033", "U2034", "U2035", "U2036", "U2037",
      "U2038", "U2039", "U203A", "U203B", "U203C", "U203D", "U203E", "U203F", "U2040", "U2041",
      "U2042", "U2043", "U2044", "U2045", "U2046", "U2047", "U2048", "U2049", "U204A", "U204B",
      "U204C", "U204D", "U204E", "U204F", "U2050", "U2051", "U2052", "U2053", "U2054", "U2055",
      "U2056", "U2057", "U2058", "U2059", "U205A", "U205B", "U205C", "U205D", "U205E", "U205F",
      "U2060", "U2061", "U2062", "U2063", "U2064", "U2065", "U2066", "U2067", "U2068", "U2069",
      "U206A", "U206B", "U206C", "U206D", "U206E", "U206F", "U20AC", "U2122", "U2192", "U2264",
      "U2500", "U2713", "U3000", "U3001", "U3002", "U3003", "U3004", "U3008", "U3009", "U300A",
      "U300B", "U300C", "U300D", "U300E", "U300F", "U3010", "U3011", "U3012", "U3013", "U3014",
      "U3015", "U3016", "U3017", "U3018", "U3019", "U301A", "U301B", "U301C", "U301D", "U301E",
      "U301F", "U3020", "U302A", "U302B", "U302C", "U302D", "U302E", "U302F", "U3030", "U3036",
      "U3037", "U303D", "U303E", "U303F", "UE000", "UFF00", "UFF01", "UFF02", "UFF03", "UFF04",
      "UFF05", "UFF06", "UFF07", "UFF08", "UFF09", "UFF0A", "UFF0B", "UFF0C", "UFF0D", "UFF0E",
      "UFF0F", "UFF1A", "UFF1B", "UFF1C", "UFF1D", "UFF1E", "UFF1F", "UFF20", "UFF3B", "UFF3C",
      "UFF3D", "UFF3E", "UFF3F", "UFF40", "UFF5B", "UFF5C", "UFF5D", "UFF5E", "UFF5F", "UFF60",
      "UFF61", "UFF62", "UFF63", "UFF64", "UFF65", "UFFBF", "UFFC0", "UFFC1", "UFFC8", "UFFC9",
      "UFFD0", "UFFD1", "UFFD8", "UFFD9", "UFFDD", "UFFDE", "UFFDF", "UFFE0", "UFFE1", "UFFE2",
      "UFFE3", "UFFE4", "UFFE5", "UFFE6", "UFFE7", "UFFE8", "UFFE9", "UFFEA", "UFFEB", "UFFEC",
      "UFFED", "UFFEE", "UFFEF", "UFFFD", "U1F600" }

\* the characters the text operators are defined on
Alphabet == WordChars \cup NonWordChars

\* [\w] on a character of the alphabet
WordChar(c) ==
    CASE c \in WordChars -> TRUE
      [] c \in NonWordChars -> FALSE

\* the characters str.lower() changes, each with its lower-case text
LowerMap ==
    ("A" :> <<"a">>) @@ ("B" :> <<"b">>) @@ ("C" :> <<"c">>) @@ ("D" :> <<"d">>) @@
    ("E" :> <<"e">>) @@ ("F" :> <<"f">>) @@ ("G" :> <<"g">>) @@ ("H" :> <<"h">>) @@
    ("I" :> <<"i">>) @@ ("J" :> <<"j">>) @@ ("K" :> <<"k">>) @@ ("L" :> <<"l">>) @@
    ("M" :> <<"m">>) @@ ("N" :> <<"n">>) @@ ("O" :> <<"o">>) @@ ("P" :> <<"p">>) @@
    ("Q" :> <<"q">>) @@ ("R" :> <<"r">>) @@ ("S" :> <<"s">>) @@ ("T" :> <<"t">>) @@
    ("U" :> <<"u">>) @@ ("V" :> <<"v">>) @@ ("W" :> <<"w">>) @@ ("X" :> <<"x">>) @@
    ("Y" :> <<"y">>) @@ ("Z" :> <<"z">>) @@ ("U00C0" :> <<"U00E0">>) @@
    ("U00C1" :> <<"U00E1">>) @@ ("U00C2" :> <<"U00E2">>) @@ ("U00C3" :> <<"U00E3">>) @@
    ("U00C4" :> <<"U00E4">>) @@ ("U00C5" :> <<"U00E5">>) @@ ("U00C6" :> <<"U00E6">>) @@
    ("U00C7" :> <<"U00E7">>) @@ ("U00C8" :> <<"U00E8">>) @@ ("U00C9" :> <<"U00E9">>) @@
    ("U00CA" :> <<"U00EA">>) @@ ("U00CB" :> <<"U00EB">>) @@ ("U00CC" :> <<"U00EC">>) @@
    ("U00CD" :> <<"U00ED">>) @@ ("U00CE" :> <<"U00EE">>) @@ ("U00CF" :> <<"U00EF">>) @@
    ("U00D0" :> <<"U00F0">>) @@ ("U00D1" :> <<"U00F1">>) @@ ("U00D2" :> <<"U00F2">>) @@
    ("U00D3" :> <<"U00F3">>) @@ ("U00D4" :> <<"U00F4">>) @@ ("U00D5" :> <<"U00F5">>) @@
    ("U00D6" :> <<"U00F6">>) @@ ("U00D8" :> <<"U00F8">>) @@ ("U00D9" :> <<"U00F9">>) @@
    ("U00DA" :> <<"U00FA">>) @@ ("U00DB" :> <<"U00FB">>) @@ ("U00DC" :> <<"U00FC">>) @@
    ("U00DD" :> <<"U00FD">>) @@ ("U00DE" :> <<"U00FE">>) @@ ("U0130" :> <<"i", "U0307">>) @@
    ("U0141" :> <<"U0142">>) @@ ("U015E" :> <<"U015F">>) @@ ("U0178" :> <<"U00FF">>) @@
    ("U0179" :> <<"U017A">>) @@ ("U0391" :> <<"U03B1">>) @@ ("U0394" :> <<"U03B4">>) @@
    ("U0399" :> <<"U03B9">>) @@ ("U039C" :> <<"U03BC">>) @@ ("U03A3" :> <<"U03C3">>) @@
    ("U03A9" :> <<"U03C9">>) @@ ("U0410" :> <<"U0430">>) @@ ("U0414" :> <<"U0434">>) @@
    ("U1E9E" :> <<"U00DF">>) @@ ("U2126" :> <<"U03C9">>) @@ ("U212A" :> <<"k">>) @@
    ("U212B" :> <<"U00E5">>) @@ ("UFF21" :> <<"UFF41">>) @@ ("UFF22" :> <<"UFF42">>) @@
    ("UFF23" :> <<"UFF43">>) @@ ("UFF24" :> <<"UFF44">>) @@ ("UFF25" :> <<"UFF45">>) @@
    ("UFF26" :> <<"UFF46">>) @@ ("UFF27" :> <<"UFF47">>) @@ ("UFF28" :> <<"UFF48">>) @@
    ("UFF29" :> <<"UFF49">>) @@ ("UFF2A" :> <<"UFF4A">>) @@ ("UFF2B" :> <<"UFF4B">>) @@
    ("UFF2C" :> <<"UFF4C">>) @@ ("UFF2D" :> <<"UFF4D">>) @@ ("UFF2E" :> <<"UFF4E">>) @@
    ("UFF2F" :> <<"UFF4F">>) @@ ("UFF30" :> <<"UFF50">>) @@ ("UFF31" :> <<"UFF51">>) @@
    ("UFF32" :> <<"UFF52">>) @@ ("UFF33" :> <<"UFF53">>) @@ ("UFF34" :> <<"UFF54">>) @@
    ("UFF35" :> <<"UFF55">>) @@ ("UFF36" :> <<"UFF56">>) @@ ("UFF37" :> <<"UFF57">>) @@
    ("UFF38" :> <<"UFF58">>) @@ ("UFF39" :> <<"UFF59">>) @@ ("UFF3A" :> <<"UFF5A">>)

\* str.lower() on one character of the alphabet (U+0130 gives two characters)
LowerChar(c) ==
    CASE c \in DOMAIN LowerMap -> LowerMap[c]
      [] c \in Alphabet /\ c \notin DOMAIN LowerMap -> <<c>>

\* the case-ignorable characters of the alphabet (skipped by the final-sigma test)
CaseIgnorableChars ==
    { "'", ".", ":", "^", "U0060", "U00A8", "U00AD", "U00AF", "U00B4", "U00B7", "U00B8", "U02BC",
      "U0300", "U0301", "U0302", "U0303", "U0304", "U0305", "U0306", "U0307", "U0308", "U0309",
      "U030A", "U030B", "U030C", "U030D", "U030E", "U030F", "U0310", "U0311", "U0312", "U0313",
      "U0314", "U0315", "U0316", "U0317", "U0318", "U0319", "U031A", "U031B", "U031C", "U031D",
      "U031E", "U031F", "U0320", "U0321", "U0322", "U0323", "U0324", "U0325", "U0326", "U0327",
      "U0328", "U0329", "U032A", "U032B", "U032C", "U032D", "U032E", "U032F", "U0330", "U0331",
      "U0332", "U0333", "U0334", "U0335", "U0336", "U0337", "U0338", "U0339", "U033A", "U033B",
      "U033C", "U033D", "U033E", "U033F", "U0340", "U0341", "U0342", "U0343", "U0344", "U0345",
      "U0346", "U0347", "U0348", "U0349", "U034A", "U034B", "U034C", "U034D", "U034E", "U034F",
      "U0350", "U0351", "U0352", "U0353", "U0354", "U0355", "U0356", "U0357", "U0358", "U0359",
      "U035A", "U035B", "U035C", "U035D", "U035E", "U035F", "U0360", "U0361", "U0362", "U0363",
      "U0364", "U0365", "U0366", "U0367", "U0368", "U0369", "U036A", "U036B", "U036C", "U036D",
      "U036E", "U036F", "U0387", "U200B", "U200C", "U200D", "U200E", "U200F", "U2018", "U2019",
      "U2024", "U2027", "U202A", "U202B", "U202C", "U202D", "U202E", "U2060", "U2061", "U2062",
      "U2063", "U2064", "U2066", "U2067", "U2068", "U2069", "U206A", "U206B", "U206C", "U206D",
      "U206E", "U206F", "U3005", "U302A", "U302B", "U302C", "U302D", "U3031", "U3032", "U3033",
      "U3034", "U3035", "U303B", "UFF07", "UFF0E", "UFF1A", "UFF3E", "UFF40", "UFF70", "UFF9E",
      "UFF9F", "UFFE3" }

\* the cased characters of the alphabet that are not case-ignorable
CasedChars ==
    { "A", "B", "C", "D", "E", "F", "G", "H", "I", "J", "K", "L", "M", "N", "O", "P", "Q", "R",
      "S", "T", "U", "V", "W", "X", "Y", "Z", "a", "b", "c", "d", "e", "f", "g", "h", "i", "j",
      "k", "l", "m", "n", "o", "p", "q", "r", "s", "t", "u", "v", "w", "x", "y", "z", "U00AA",
      "U00B5", "U00BA", "U00C0", "U00C1", "U00C2", "U00C3", "U00C4", "U00C5", "U00C6", "U00C7",
      "U00C8", "U00C9", "U00CA", "U00CB", "U00CC", "U00CD", "U00CE", "U00CF", "U00D0", "U00D1",
      "U00D2", "U00D3", "U00D4", "U00D5", "U00D6", "U00D8", "U00D9", "U00DA", "U00DB", "U00DC",
      "U00DD", "U00DE", "U00DF", "U00E0", "U00E1", "U00E2", "U00E3", "U00E4", "U00E5", "U00E6",
      "U00E7", "U00E8", "U00E9", "U00EA", "U00EB", "U00EC", "U00ED", "U00EE", "U00EF", "U00F0",
      "U00F1", "U00F2", "U00F3", "U00F4", "U00F5", "U00F6", "U00F8", "U00F9", "U00FA", "U00FB",
      "U00FC", "U00FD", "U00FE", "U00FF", "U0130", "U0131", "U0141", "U0142", "U0149", "U015E",
      "U015F", "U0178", "U0179", "U017A", "U017F", "U0391", "U0394", "U0399", "U039C", "U03A3",
      "U03A9", "U03B1", "U03B4", "U03B9", "U03BC", "U03C2", "U03C3", "U03C9", "U0410", "U0414",
      "U0430", "U0434", "U1E9E", "U2126", "U212A", "U212B", "UFB01", "UFB05", "UFF21", "UFF22",
      "UFF23", "UFF24", "UFF25", "UFF26", "UFF27", "UFF28", "UFF29", "UFF2A", "UFF2B", "UFF2C",
      "UFF2D", "UFF2E", "UFF2F", "UFF30", "UFF31", "UFF32", "UFF33", "UFF34", "UFF35", "UFF36",
      "UFF37", "UFF38", "UFF39", "UFF3A", "UFF41", "UFF42", "UFF43", "UFF44", "UFF45", "UFF46",
      "UFF47", "UFF48", "UFF49", "UFF4A", "UFF4B", "UFF4C", "UFF4D", "UFF4E", "UFF4F", "UFF50",
      "UFF51", "UFF52", "UFF53", "UFF54", "UFF55", "UFF56", "UFF57", "UFF58", "UFF59", "UFF5A" }

\* the final-sigma test of str.lower(): the nearest character before position i that
\* is not case-ignorable is cased
RECURSIVE CasedBefore(_, _)
CasedBefore(s, j) ==
    IF j = 0 THEN FALSE
    ELSE IF s[j] \in CaseIgnorableChars THEN CasedBefore(s, j - 1)
    ELSE s[j] \in CasedChars

\* the nearest character after position i that is not case-ignorable is cased
RECURSIVE CasedAfter(_, _)
CasedAfter(s, j) ==
    IF j > Len(s) THEN FALSE
    ELSE IF s[j] \in CaseIgnorableChars THEN CasedAfter(s, j + 1)
    ELSE s[j] \in CasedChars

\* str.lower() on the character at position i of s: a capital sigma becomes the final
\* sigma after a cased character when no cased character follows
LowerAt(s, i) ==
    IF s[i] = "U03A3"
    THEN IF CasedBefore(s, i - 1) /\ ~CasedAfter(s, i + 1) THEN <<"U03C2">> ELSE <<"U03C3">>
    ELSE LowerChar(s[i])

RECURSIVE LowerFrom(_, _)
LowerFrom(s, i) == IF i > Len(s) THEN <<>> ELSE LowerAt(s, i) \o LowerFrom(s, i + 1)

\* str.lower()
Lower(s) == LowerFrom(s, 1)

\* the characters str.upper() changes, each with its upper-case text
UpperMap ==
    ("a" :> <<"A">>) @@ ("b" :> <<"B">>) @@ ("c" :> <<"C">>) @@ ("d" :> <<"D">>) @@
    ("e" :> <<"E">>) @@ ("f" :> <<"F">>) @@ ("g" :> <<"G">>) @@ ("h" :> <<"H">>) @@
    ("i" :> <<"I">>) @@ ("j" :> <<"J">>) @@ ("k" :> <<"K">>) @@ ("l" :> <<"L">>) @@
    ("m" :> <<"M">>) @@ ("n" :> <<"N">>) @@ ("o" :> <<"O">>) @@ ("p" :> <<"P">>) @@
    ("q" :> <<"Q">>) @@ ("r" :> <<"R">>) @@ ("s" :> <<"S">>) @@ ("t" :> <<"T">>) @@
    ("u" :> <<"U">>) @@ ("v" :> <<"V">>) @@ ("w" :> <<"W">>) @@ ("x" :> <<"X">>) @@
    ("y" :> <<"Y">>) @@ ("z" :> <<"Z">>) @@ ("U00B5" :> <<"U039C">>) @@
    ("U00DF" :> <<"S", "S">>) @@ ("U00E0" :> <<"U00C0">>) @@ ("U00E1" :> <<"U00C1">>) @@
    ("U00E2" :> <<"U00C2">>) @@ ("U00E3" :> <<"U00C3">>) @@ ("U00E4" :> <<"U00C4">>) @@
    ("U00E5" :> <<"U00C5">>) @@ ("U00E6" :> <<"U00C6">>) @@ ("U00E7" :> <<"U00C7">>) @@
    ("U00E8" :> <<"U00C8">>) @@ ("U00E9" :> <<"U00C9">>) @@ ("U00EA" :> <<"U00CA">>) @@
    ("U00EB" :> <<"U00CB">>) @@ ("U00EC" :> <<"U00CC">>) @@ ("U00ED" :> <<"U00CD">>) @@
    ("U00EE" :> <<"U00CE">>) @@ ("U00EF" :> <<"U00CF">>) @@ ("U00F0" :> <<"U00D0">>) @@
    ("U00F1" :> <<"U00D1">>) @@ ("U00F2" :> <<"U00D2">>) @@ ("U00F3" :> <<"U00D3">>) @@
    ("U00F4" :> <<"U00D4">>) @@ ("U00F5" :> <<"U00D5">>) @@ ("U00F6" :> <<"U00D6">>) @@
    ("U00F8" :> <<"U00D8">>) @@ ("U00F9" :> <<"U00D9">>) @@ ("U00FA" :> <<"U00DA">>) @@
    ("U00FB" :> <<"U00DB">>) @@ ("U00FC" :> <<"U00DC">>) @@ ("U00FD" :> <<"U00DD">>) @@
    ("U00FE" :> <<"U00DE">>) @@ ("U00FF" :> <<"U0178">>) @@ ("U0131" :> <<"I">>) @@
    ("U0142" :> <<"U0141">>) @@ ("U0149" :> <<"U02BC", "N">>) @@ ("U015F" :> <<"U015E">>) @@
    ("U017A" :> <<"U0179">>) @@ ("U017F" :> <<"S">>) @@ ("U0345" :> <<"U0399">>) @@
    ("U03B1" :> <<"U0391">>) @@ ("U03B4" :> <<"U0394">>) @@ ("U03B9" :> <<"U0399">>) @@
    ("U03BC" :> <<"U039C">>) @@ ("U03C2" :> <<"U03A3">>) @@ ("U03C3" :> <<"U03A3">>) @@
    ("U03C9" :> <<"U03A9">>) @@ ("U0430" :> <<"U0410">>) @@ ("U0434" :> <<"U0414">>) @@
    ("UFB01" :> <<"F", "I">>) @@ ("UFB05" :> <<"S", "T">>) @@ ("UFF41" :> <<"UFF21">>) @@
    ("UFF42" :> <<"UFF22">>) @@ ("UFF43" :> <<"UFF23">>) @@ ("UFF44" :> <<"UFF24">>) @@
    ("UFF45" :> <<"UFF25">>) @@ ("UFF46" :> <<"UFF26">>) @@ ("UFF47" :> <<"UFF27">>) @@
    ("UFF48" :> <<"UFF28">>) @@ ("UFF49" :> <<"UFF29">>) @@ ("UFF4A" :> <<"UFF2A">>) @@
    ("UFF4B" :> <<"UFF2B">>) @@ ("UFF4C" :> <<"UFF2C">>) @@ ("UFF4D" :> <<"UFF2D">>) @@
    ("UFF4E" :> <<"UFF2E">>) @@ ("UFF4F" :> <<"UFF2F">>) @@ ("UFF50" :> <<"UFF30">>) @@
    ("UFF51" :> <<"UFF31">>) @@ ("UFF52" :> <<"UFF32">>) @@ ("UFF53" :> <<"UFF33">>) @@
    ("UFF54" :> <<"UFF34">>) @@ ("UFF55" :> <<"UFF35">>) @@ ("UFF56" :> <<"UFF36">>) @@
    ("UFF57" :> <<"UFF37">>) @@ ("UFF58" :> <<"UFF38">>) @@ ("UFF59" :> <<"UFF39">>) @@
    ("UFF5A" :> <<"UFF3A">>)

\* str.upper() on one character of the alphabet (U+00DF gives two characters)
UpperChar(c) ==
    CASE c \in DOMAIN UpperMap -> UpperMap[c]
      [] c \in Alphabet /\ c \notin DOMAIN UpperMap -> <<c>>

\* str.upper()
RECURSIVE Upper(_)
Upper(s) == IF s = <<>> THEN <<>> ELSE UpperChar(Head(s)) \o Upper(Tail(s))

\* str.strip()
RECURSIVE LStrip(_)
LStrip(s) == IF s # <<>> /\ Head(s) \in Whitespace THEN LStrip(Tail(s)) ELSE s
RECURSIVE RStrip(_)
RStrip(s) ==
    IF s # <<>> /\ s[Len(s)] \in Whitespace THEN RStrip(SubSeq(s, 1, Len(s) - 1)) ELSE s
Strip(s) == RStrip(LStrip(s))

\* s[i:].startswith(kw)
MatchesAt(kw, s, i) ==
    /\ i + Len(kw) - 1 <= Len(s)
    /\ \A j \in 1..Len(kw) : s[i + j - 1] = kw[j]

\* kw in s
Contains(kw, s) == \E i \in 1..(Len(s) - Len(kw) + 1) : MatchesAt(kw, s, i)

\* s.startswith(p)
StartsWith(s, p) == MatchesAt(p, s, 1)

(***************************************************************************)
(* core/permission_gateway.py: rule tables.                                *)
(***************************************************************************)
SAFE_TOOLS ==
    { <<"f","i","l","e","_","s","y","s","t","e","m","_","r","e","a","d","e","r">>,
      <<"f","i","l","e","_","r","e","a","d","e","r">>,
      <<"l","o","g","_","f","r","e","q","u","e","n","c","y","_",
        "a","n","a","l","y","z","e","r">>,
      <<"l","i","s","t","_","d","i","r">> }

RISKY_KEYWORDS ==
    << <<"U5199","U5165">>, <<"U5199">>, <<"U521B","U5EFA">>,
       <<"c","r","e","a","t","e">>, <<"w","r","i","t","e">>,
       <<"i","n","s","t","a","l","l">>, <<"p","i","p">>,
       <<"U7F51","U7EDC">>, <<"n","e","t","w","o","r","k">>,
       <<"r","e","q","u","e","s","t">>, <<"c","u","r","l">>, <<"w","g","e","t">> >>

RISKY_TOOLS ==
    { <<"f","i","l","e","_","w","r","i","t","e","r">>,
      <<"c","o","d","e","_","w","r","i","t","e","r">>,
      <<"p","y","t","h","o","n","_","i","n","t","e","r","p","r","e","t","e","r">> }

DANGEROUS_KEYWORDS ==
    << <<"U5220","U9664">>, <<"r","e","m","o","v","e">>, <<"r","m"," ">>,
       <<"u","n","l","i","n","k">>, <<"U7CFB","U7EDF","U76EE","U5F55">>,
       <<"s","y","s","t","e","m">>, <<"/","e","t","c">>, <<"/","u","s","r">>,
       <<"U4E8C","U8FDB","U5236">>, <<"e","x","e","c">>,
       <<"s","u","b","p","r","o","c","e","s","s">>, <<"s","h","e","l","l">> >>

DANGEROUS_TOOLS == {}

(***************************************************************************)
(* os.path on POSIX, as used by _path_in_workspace.                        *)
(***************************************************************************)
\* the process's working directory
Cwd == <<"/","a","p","p">>
\* PermissionGateway(workspace_path=...): the configured workspace root
workspace_path == <<"/","w","s">>

\* path.split("/")
RECURSIVE SplitSlash(_, _)
SplitSlash(s, cur) ==
    IF s = <<>> THEN <<cur>>
    ELSE IF Head(s) = "/" THEN <<cur>> \o SplitSlash(Tail(s), <<>>)
    ELSE SplitSlash(Tail(s), Append(cur, Head(s)))

\* the loop of posixpath.normpath over the components
RECURSIVE NormComps(_, _, _)
NormComps(comps, new_comps, initial_slashes) ==
    IF comps = <<>> THEN new_comps
    ELSE LET comp == Head(comps)
             dotdot == <<".", ".">>
         IN IF comp = <<>> \/ comp = <<".">>
            THEN NormComps(Tail(comps), new_comps, initial_slashes)
            ELSE IF \/ comp # dotdot
                    \/ (initial_slashes = 0 /\ new_comps = <<>>)
                    \/ (new_comps # <<>> /\ new_comps[Len(new_comps)] = dotdot)
            THEN NormComps(Tail(comps), Append(new_comps, comp), initial_slashes)
            ELSE IF new_comps # <<>>
            THEN NormComps(Tail(comps), SubSeq(new_comps, 1, Len(new_comps) - 1),
                           initial_slashes)
            ELSE NormComps(Tail(comps), new_comps, initial_slashes)

\* "/".join(comps)
RECURSIVE JoinSlash(_)
JoinSlash(comps) ==
    IF comps = <<>> THEN <<>>
    ELSE IF Len(comps) = 1 THEN Head(comps)
    ELSE Head(comps) \o <<"/">> \o JoinSlash(Tail(comps))

\* posixpath.normpath
Normpath(path) ==
    IF path = <<>> THEN <<".">>
    ELSE LET initial_slashes ==
                 IF ~StartsWith(path, <<"/">>) THEN 0
                 ELSE IF StartsWith(path, <<"/","/">>) /\ ~StartsWith(path, <<"/","/","/">>)
                 THEN 2 ELSE 1
             joined == JoinSlash(NormComps(SplitSlash(path, <<>>), <<>>, initial_slashes))
             out == [i \in 1..initial_slashes |-> "/"] \o joined
         IN IF out = <<>> THEN <<".">> ELSE out

\* posixpath.abspath
Abspath(path) ==
    Normpath(IF StartsWith(path, <<"/">>) THEN path ELSE Cwd \o <<"/">> \o path)

\* str.replace("\\", "/")
SlashOnly(s) == [i \in 1..Len(s) |-> IF s[i] = "\\" THEN "/" ELSE s[i]]

\* PermissionGateway._norm_workspace
NormWorkspace == SlashOnly(Abspath(SlashOnly(workspace_path)))

\* PermissionGateway._path_in_workspace
PathInWorkspace(path) ==
    IF Strip(path) = <<>> THEN FALSE
    ELSE LET p == SlashOnly(Abspath(Strip(path)))
         IN p = NormWorkspace \/ StartsWith(p, NormWorkspace \o <<"/">>)

(***************************************************************************)
(* _extract_paths_from_step: the two regular expressions.                  *)
(***************************************************************************)
\* [a-zA-Z0-9_.-]
PathFirstChars == LowerLetters \cup UpperLetters \cup Digits \cup {"_", ".", "-"}
\* [/\w.-]   (\w is Unicode-aware)
PathRestChar(c) == c \in PathFirstChars \/ c = "/" \/ WordChar(c)
\* (?i)[A-Za-z]: with IGNORECASE the class also takes the four letters whose case
\* folding is an ASCII letter
DriveLetters == LowerLetters \cup UpperLetters \cup {"U0130", "U0131", "U017F", "U212A"}
\* [^\s"']
NonSpaceNonQuote(c) == c \notin Whitespace /\ c # "\"" /\ c # "'"

\* last index of the run of [/\w.-] characters that starts at i (i - 1 if none)
RECURSIVE RunEnd(_, _)
RunEnd(s, i) ==
    IF i <= Len(s) /\ PathRestChar(s[i]) THEN RunEnd(s, i + 1) ELSE i - 1

RECURSIVE RunEndNonSpace(_, _)
RunEndNonSpace(s, i) ==
    IF i <= Len(s) /\ NonSpaceNonQuote(s[i]) THEN RunEndNonSpace(s, i + 1) ELSE i - 1

\* re.finditer(r"/[a-zA-Z0-9_.-]+[/\w.-]*", desc) from position i
RECURSIVE UnixPathsFrom(_, _)
UnixPathsFrom(s, i) ==
    IF i > Len(s) THEN {}
    ELSE IF s[i] = "/" /\ i + 1 <= Len(s) /\ s[i + 1] \in PathFirstChars
    THEN LET e == RunEnd(s, i + 1)
         IN {SubSeq(s, i, e)} \cup UnixPathsFrom(s, e + 1)
    ELSE UnixPathsFrom(s, i + 1)

\* re.finditer(r"(?i)[A-Za-z]:[/\\][^\s\"']+", desc) from position i
RECURSIVE DrivePathsFrom(_, _)
DrivePathsFrom(s, i) ==
    IF i > Len(s) THEN {}
    ELSE IF /\ i + 3 <= Len(s)
            /\ s[i] \in DriveLetters
            /\ s[i + 1] = ":"
            /\ s[i + 2] \in {"/", "\\"}
            /\ NonSpaceNonQuote(s[i + 3])
    THEN LET e == RunEndNonSpace(s, i + 3)
         IN {SubSeq(s, i, e)} \cup DrivePathsFrom(s, e + 1)
    ELSE DrivePathsFrom(s, i + 1)

\* dict.get(key) on a step or its parameters; <<>> stands for a missing / empty value
GetText(d, key) == IF key \in DOMAIN d THEN d[key] ELSE <<>>

PathKeys == {"path", "file_path", "file", "target"}

\* PermissionGateway._extract_paths_from_step (the order of the list is immaterial
\* to its only caller, which asks whether any element is outside)
ExtractPathsFromStep(step) ==
    LET desc == GetText(step, "description") \o <<" ">> \o GetText(step, "tool")
        top == {Strip(GetText(step, k)) : k \in PathKeys} \ {<<>>}
        params == IF "parameters" \in DOMAIN step
                  THEN {Strip(GetText(step.parameters, k)) : k \in PathKeys} \ {<<>>}
                  ELSE {}
    IN top \cup params \cup DrivePathsFrom(desc, 1) \cup UnixPathsFrom(desc, 1)

\* PermissionGateway._has_path_outside_workspace
HasPathOutsideWorkspace(step) ==
    \E raw \in ExtractPathsFromStep(step) :
        /\ raw # <<>>
        /\ (StartsWith(raw, <<"/">>) \/ Contains(<<":">>, SubSeq(raw, 1, IF Len(raw) < 2 THEN Len(raw) ELSE 2)))
        /\ ~PathInWorkspace(raw)

(***************************************************************************)
(* Steps.  A plan step is [step_id, kind]; kind names the step's text      *)
(* (description, tool, parameters) in the table StepText.                  *)
(***************************************************************************)
StepText ==
    [ \* read-only tool, neutral description
      read  |-> [ description |-> <<"s","h","o","w"," ","a",".","t","x","t">>,
                  tool |-> <<"f","i","l","e","_","r","e","a","d","e","r">> ],
      \* spec scenario A: file_writer, "write hello.txt"
      write |-> [ description |-> <<"w","r","i","t","e"," ","h","e","l","l","o",".","t","x","t">>,
                  tool |-> <<"f","i","l","e","_","w","r","i","t","e","r">> ],
      \* a path outside the workspace
      wipe  |-> [ description |-> <<"c","l","e","a","r"," ","/","e","t","c","/","x">>,
                  tool |-> <<"l","i","s","t","_","d","i","r">> ] ]

\* the step kinds the planner and the strategist draw from
StepKinds == {"read", "write", "wipe"}

\* the dict of a step as the gateway reads it
StepDict(step) == StepText[step.kind]

\* for kw in KEYWORDS: if kw in description or kw in tool
AnyKeyword(keywords, description, tool) ==
    \E n \in 1..Len(keywords) :
        Contains(keywords[n], description) \/ Contains(keywords[n], tool)

\* faulty variant: an unrecognized tool is let through
Unrecognized_Allow == [allowed |-> TRUE, risk_level |-> "SAFE", reason |-> "unrecognized"]

\* PermissionGateway.verify_step: the result for a step no rule recognizes
Unrecognized == [allowed |-> FALSE, risk_level |-> "RISKY", reason |-> "unrecognized"]

\* faulty variant: the risky rules are tried before the dangerous ones
Classify_RiskyFirst(d) ==
    LET description == Lower(GetText(d, "description"))
        tool == Lower(Strip(GetText(d, "tool")))
    IN IF AnyKeyword(RISKY_KEYWORDS, description, tool)
       THEN [allowed |-> FALSE, risk_level |-> "RISKY", reason |-> "risky_keyword"]
       ELSE IF tool \in RISKY_TOOLS
       THEN [allowed |-> FALSE, risk_level |-> "RISKY", reason |-> "risky_tool"]
       ELSE IF HasPathOutsideWorkspace(d)
       THEN [allowed |-> FALSE, risk_level |-> "DANGEROUS", reason |-> "outside_workspace"]
       ELSE IF AnyKeyword(DANGEROUS_KEYWORDS, description, tool)
       THEN [allowed |-> FALSE, risk_level |-> "DANGEROUS", reason |-> "dangerous_keyword"]
       ELSE IF tool \in DANGEROUS_TOOLS
       THEN [allowed |-> FALSE, risk_level |-> "DANGEROUS", reason |-> "dangerous_tool"]
       ELSE IF tool \in SAFE_TOOLS
       THEN [allowed |-> TRUE, risk_level |-> "SAFE", reason |-> "read_only"]
       ELSE Unrecognized

\* PermissionGateway.verify_step: the classification (allowed, risk_level, reason)
Classify(d) ==
    LET description == Lower(GetText(d, "description"))
        tool == Lower(Strip(GetText(d, "tool")))
    IN IF HasPathOutsideWorkspace(d)
       THEN [allowed |-> FALSE, risk_level |-> "DANGEROUS", reason |-> "outside_workspace"]
       ELSE IF AnyKeyword(DANGEROUS_KEYWORDS, description, tool)
       THEN [allowed |-> FALSE, risk_level |-> "DANGEROUS", reason |-> "dangerous_keyword"]
       ELSE IF tool \in DANGEROUS_TOOLS
       THEN [allowed |-> FALSE, risk_level |-> "DANGEROUS", reason |-> "dangerous_tool"]
       ELSE IF AnyKeyword(RISKY_KEYWORDS, description, tool)
       THEN [allowed |-> FALSE, risk_level |-> "RISKY", reason |-> "risky_keyword"]
       ELSE IF tool \in RISKY_TOOLS
       THEN [allowed |-> FALSE, risk_level |-> "RISKY", reason |-> "risky_tool"]
       ELSE IF tool \in SAFE_TOOLS
       THEN [allowed |-> TRUE, risk_level |-> "SAFE", reason |-> "read_only"]
       ELSE Unrecognized

\* the classification of every step kind (computed once)
KindVerdict == [k \in StepKinds |-> Classify(StepText[k])]

\* PermissionGateway.verify_step: the StepVerificationResult of a plan step
verify_step(step) ==
    [ allowed |-> KindVerdict[step.kind].allowed,
      risk_level |-> KindVerdict[step.kind].risk_level,
      reason |-> KindVerdict[step.kind].reason,
      step_id |-> step.step_id,
      step_snapshot |-> step ]

(***************************************************************************)
(* Python dict helpers.                                                    *)
(***************************************************************************)
\* d[k] = v
Put(d, k, v) == [x \in DOMAIN d \cup {k} |-> IF x = k THEN v ELSE d[x]]
\* d.pop(k, None)
Pop(d, k) == [x \in DOMAIN d \ {k} |-> d[x]]
\* {}
EmptyDict == [x \in {} |-> {}]
\* f"step_{step_id}"
StepKey(step_id) == <<"step_", step_id>>
\* None in a text field
None == "None"
\* a step_id: <<n>> stands for the integer n and <<>> for None (step.get("step_id")
\* of a step without the key, or with the value null)
NoneId == <<>>
Id(n) == <<n>>

(***************************************************************************)
(* State.                                                                  *)
(***************************************************************************)
VARIABLES
    state,          \* the AOSState: plan, execution_results, verification_feedback,
                    \* retry_count, current_phase, error, memory
    last,           \* what the most recent call did (its sandbox and gateway calls)
    approved,       \* plan indices approved by approve_step and not executed since
    succeeded,      \* plan indices whose execution has ended with success so far
    pc,             \* position of run_full_pipeline ("api": calls made directly)
    auto_approve,   \* run_full_pipeline's auto_approve argument
    recover_calls,  \* number of recover calls made by run_full_pipeline
    exec_count      \* run_full_pipeline: how often each plan index was executed

\* nothing has been executed yet
NoExecutions == [i \in {} |-> 0]

\* the counts after a pass that executed the plan indices of the sequence executed
CountExecutions(count, executed) ==
    LET ran == {executed[k] : k \in 1..Len(executed)}
    IN [i \in DOMAIN count \cup ran |->
          (IF i \in DOMAIN count THEN count[i] ELSE 0)
          + Cardinality({k \in 1..Len(executed) : executed[k] = i})]

vars == <<state, last, approved, succeeded, pc, auto_approve, recover_calls, exec_count>>

\* PermissionGateway._apply_awaiting_approval (state supplied)
ApplyAwaitingApproval(st, result) ==
    [st EXCEPT !.current_phase = "awaiting_user_approval",
               !.error = result.reason,
               !.memory = Put(Put(Put(@, "pending_approval_step", result.step_snapshot),
                                  "pending_approval_risk", result.risk_level),
                              "pending_approval_step_id", result.step_id)]

\* faulty variant: approve_step also forgets which step was approved
ApproveStepState_DropId(st) ==
    [st EXCEPT !.current_phase = "execution",
               !.error = None,
               !.memory = Pop(Pop(Pop(@, "pending_approval_step"), "pending_approval_risk"),
                              "pending_approval_step_id")]

\* faulty variant: approve_step forgets to leave the awaiting phase
ApproveStepState_KeepPhase(st) ==
    [st EXCEPT !.error = None,
               !.memory = Pop(Pop(@, "pending_approval_step"), "pending_approval_risk")]

\* PermissionGateway.approve_step
ApproveStepState(st) ==
    [st EXCEPT !.current_phase = "execution",
               !.error = None,
               !.memory = Pop(Pop(@, "pending_approval_step"), "pending_approval_risk")]

(***************************************************************************)
(* agents/execution_agent.py: ExecutionAgent.run.                          *)
(***************************************************************************)
\* what the sandbox call of one step can do: exit code 0, a non-zero exit code,
\* or an exception raised by the docker manager
Outcomes == {"exit_0", "exit_1", "raise"}

\* the entry run writes to execution_results for an outcome (lines 230-242; the
\* output texts are left out)
ExecResult(outcome) ==
    CASE outcome = "exit_0" -> [exit_code |-> 0, success |-> TRUE]
      [] outcome = "exit_1" -> [exit_code |-> 1, success |-> FALSE]
      [] outcome = "raise"  -> [success |-> FALSE, error |-> "exception"]

\* faulty variant: only failed results are skipped, a successful one is run again
SkipStep_FailedOnly(results, key, allow_retry_failed) ==
    /\ key \in DOMAIN results
    /\ results[key].success = FALSE
    /\ ~allow_retry_failed

\* faulty variant: the one-shot flag is not looked at, a failed step is always run again
SkipStep_SuccessOnly(results, key, allow_retry_failed) ==
    /\ key \in DOMAIN results
    /\ results[key].success = TRUE

\* lines 210-217: the step already has a result and is not to be executed
SkipStep(results, key, allow_retry_failed) ==
    /\ key \in DOMAIN results
    /\ \/ results[key].success = TRUE
       \/ ~(allow_retry_failed /\ results[key].success = FALSE)

\* line 214: the step is about to be executed although its key holds a failed result
FailedBefore(results, key) ==
    /\ key \in DOMAIN results
    /\ results[key].success = FALSE

\* lines 199-205: the plan indices of steps_to_run
RECURSIVE SelectIdx(_, _, _)
SelectIdx(plan, i, next_step_id) ==
    IF i > Len(plan) THEN <<>>
    ELSE IF plan[i].step_id = next_step_id
    THEN <<i>> \o SelectIdx(plan, i + 1, next_step_id)
    ELSE SelectIdx(plan, i + 1, next_step_id)

\* faulty variant: a full pass walks the plan from its last step to its first
StepsToRun_Reversed(plan, just_approved, next_step_id) ==
    IF just_approved THEN SelectIdx(plan, 1, next_step_id)
    ELSE [i \in 1..Len(plan) |-> Len(plan) + 1 - i]

StepsToRun(plan, just_approved, next_step_id) ==
    IF just_approved THEN SelectIdx(plan, 1, next_step_id)
    ELSE [i \in 1..Len(plan) |-> i]

\* lines 218-221: the gateway is consulted for this step
ConsultGateway(just_approved) == ~just_approved

\* faulty variant: a non-zero exit code ends the pass
RestAfterOutcome_StopOnFailure(idxs, o) == IF o = "exit_1" THEN <<>> ELSE Tail(idxs)

\* faulty variant: an exception from the sandbox ends the pass
RestAfterOutcome_StopOnRaise(idxs, o) == IF o = "raise" THEN <<>> ELSE Tail(idxs)

\* lines 222-242: whatever the sandbox call did, the loop goes to the next step
RestAfterOutcome(idxs, o) == Tail(idxs)

\* faulty variant: the loop goes on to the next step after a disallow
RestAfterBlock_Continue(idxs) == Tail(idxs)

\* lines 220-221: on a disallow run returns; nothing of steps_to_run is left
RestAfterBlock(idxs) == <<>>

\* faulty variant: the awaiting-approval check of line 193 is missing
AwaitingApproval_Never(st) == FALSE

\* line 193: run is called while the task awaits an approval
AwaitingApproval(st) == st.current_phase = "awaiting_user_approval"

\* lines 207-242: the loop over steps_to_run.  acc is [state, executed, outcomes,
\* retried (the indices executed while their key held a failed result),
\* checked, blocked, succeeded]: the state so far, the plan indices executed in the
\* sandbox (with what each sandbox call did) and those checked by the gateway, in call order, the index at which the gateway
\* stopped the pass (0 if none), and the indices whose execution returned exit
\* code 0.  The value is the set of possible outcomes.
RECURSIVE RunSteps(_, _, _, _)
RunSteps(acc, idxs, just_approved, allow_retry_failed) ==
    IF idxs = <<>> THEN {acc}
    ELSE LET i == Head(idxs)
             step == acc.state.plan[i]
             key == StepKey(step.step_id)
             consult == ConsultGateway(just_approved)
             result == verify_step(step)
             ok == {"exit_0"}
         IN IF SkipStep(acc.state.execution_results, key, allow_retry_failed)
            THEN RunSteps(acc, Tail(idxs), just_approved, allow_retry_failed)
            ELSE IF consult /\ ~result.allowed
            THEN RunSteps([acc EXCEPT !.state = ApplyAwaitingApproval(@, result),
                                      !.checked = Append(@, i),
                                      !.blocked = i],
                          RestAfterBlock(idxs), just_approved, allow_retry_failed)
            ELSE UNION { RunSteps(
                           [acc EXCEPT !.state.execution_results = Put(@, key, ExecResult(o)),
                                       !.executed = Append(@, i),
                                       !.outcomes = Append(@, o),
                                       !.retried = IF FailedBefore(acc.state.execution_results, key)
                                                   THEN @ \cup {i} ELSE @,
                                       !.succeeded = IF o \in ok THEN @ \cup {i} ELSE @,
                                       !.checked = IF consult THEN Append(@, i) ELSE @],
                           RestAfterOutcome(idxs, o), just_approved, allow_retry_failed)
                         : o \in Outcomes }

\* ExecutionAgent.run: the set of [state, executed, checked, blocked, mode,
\* allow_retry_failed] it can end in
RunOutcomes(st) ==
    LET none == [executed |-> <<>>, outcomes |-> <<>>, retried |-> {},
                 checked |-> <<>>, blocked |-> 0,
                 succeeded |-> {},
                 allow_retry_failed |-> FALSE]
    IN IF st.plan = <<>>
       THEN {[state |-> [st EXCEPT !.current_phase = "execution"], mode |-> "empty_plan"] @@ none}
       ELSE IF AwaitingApproval(st)
       THEN {[state |-> st, mode |-> "awaiting"] @@ none}
       ELSE LET allow_retry_failed ==
                    IF "allow_retry_failed_steps" \in DOMAIN st.memory
                    THEN st.memory["allow_retry_failed_steps"] ELSE FALSE
                next_step_id == IF "pending_approval_step_id" \in DOMAIN st.memory
                                THEN st.memory["pending_approval_step_id"] ELSE NoneId
                just_approved == next_step_id # NoneId
                st1 == [st EXCEPT !.current_phase = "execution",
                                  !.memory = IF just_approved
                                             THEN Pop(Pop(@, "allow_retry_failed_steps"),
                                                      "pending_approval_step_id")
                                             ELSE Pop(@, "allow_retry_failed_steps")]
                start == [state |-> st1, executed |-> <<>>, outcomes |-> <<>>,
                          retried |-> {},
                          checked |-> <<>>, blocked |-> 0,
                          succeeded |-> {}]
            IN { r @@ [mode |-> IF just_approved THEN "resume" ELSE "full",
                       allow_retry_failed |-> allow_retry_failed]
                 : r \in RunSteps(start, StepsToRun(st.plan, just_approved, next_step_id),
                                  just_approved, allow_retry_failed) }

(***************************************************************************)
(* agents/verification_agent.py.                                           *)
(***************************************************************************)
\* what the LLM call of _semantic_verify does (lines 40-47): it returns a text, it
\* returns nothing or blanks only, it raises
SemanticReplies == {"text", "blank", "raise"}

\* _semantic_verify, lines 40-47: the reply stripped, or a fixed text chosen by success
SemanticReason(reply, success) ==
    CASE reply = "text" -> "llm_judgement"
      [] reply = "blank" -> IF success THEN "reached" ELSE "not_reached"
      [] OTHER -> IF success THEN "reached" ELSE "not_reached_exit_code_or_exception"

\* lines 65-93: the verdict of one step; with use_semantic the reason of a FAILED
\* verdict on a result is the one _semantic_verify gives (lines 86-87)
Verdict(results, key, use_semantic, reply) ==
    IF key \notin DOMAIN results
    THEN [status |-> "FAILED", reason |-> "no_result"]
    ELSE LET res == results[key]
             success == res.success
             exit_code == IF "exit_code" \in DOMAIN res THEN res.exit_code ELSE -1
         IN IF success /\ exit_code = 0
            THEN [status |-> "SUCCESS", reason |-> "exit_code_0"]
            ELSE [status |-> "FAILED",
                  reason |-> IF use_semantic THEN SemanticReason(reply, success)
                             ELSE "failed_or_exception"]

\* faulty variant: a verdict already in verification_feedback is kept
RECURSIVE VerifySteps_KeepOld(_, _, _, _, _, _)
VerifySteps_KeepOld(feedback, plan, i, results, use_semantic, replies) ==
    IF i > Len(plan) THEN feedback
    ELSE LET key == StepKey(plan[i].step_id)
         IN VerifySteps_KeepOld(IF key \in DOMAIN feedback THEN feedback
                                ELSE Put(feedback, key,
                                         Verdict(results, key, use_semantic, replies[i])),
                                plan, i + 1, results, use_semantic, replies)

\* lines 60-93: the loop over the plan; replies[i] is what the LLM does if it is
\* called for step i
RECURSIVE VerifySteps(_, _, _, _, _, _)
VerifySteps(feedback, plan, i, results, use_semantic, replies) ==
    IF i > Len(plan) THEN feedback
    ELSE LET key == StepKey(plan[i].step_id)
         IN VerifySteps(Put(feedback, key, Verdict(results, key, use_semantic, replies[i])),
                        plan, i + 1, results, use_semantic, replies)

\* VerificationAgent.verify(state, use_semantic)
VerifyState(st, use_semantic, replies) ==
    IF st.plan = <<>>
    THEN [st EXCEPT !.current_phase = "verification"]
    ELSE [st EXCEPT !.current_phase = "verification",
                    !.verification_feedback =
                        VerifySteps(@, st.plan, 1, st.execution_results,
                                    use_semantic, replies)]

\* the plan steps verify calls the LLM for: with use_semantic, those with a result
\* that is no success with exit code 0
SemanticCalls(st, use_semantic) ==
    { i \in 1..Len(st.plan) :
        /\ use_semantic
        /\ StepKey(st.plan[i].step_id) \in DOMAIN st.execution_results
        /\ Verdict(st.execution_results, StepKey(st.plan[i].step_id), FALSE, "text").status
             = "FAILED" }

\* has_verification_failures
has_verification_failures(st) ==
    \E k \in DOMAIN st.verification_feedback :
        st.verification_feedback[k].status = "FAILED"

(***************************************************************************)
(* agents/recovery_agent.py: RecoveryAgent.recover.                        *)
(***************************************************************************)
\* STRATEGY_RETRY, STRATEGY_REPLAN, STRATEGY_ABORT (lines 18-20)
STRATEGY_RETRY == <<"R", "E", "T", "R", "Y">>
STRATEGY_REPLAN == <<"R", "E", "P", "L", "A", "N">>
STRATEGY_ABORT == <<"A", "B", "O", "R", "T">>

\* the strategy texts a strategist reply can carry: the three strategies, in other
\* cases and padded with blanks, a tab or a newline, an unknown word, the empty
\* text (also for a missing key)
StrategyTexts ==
    { STRATEGY_RETRY, STRATEGY_REPLAN, STRATEGY_ABORT,
      <<" ", "r", "e", "p", "l", "a", "n", " ">>,
      <<"r", "e", "t", "r", "y">>,
      <<"R", "e", "p", "l", "a", "n">>,
      <<"r", "e", "p", "l", "a", "n">>,
      <<"\t", "R", "E", "P", "L", "A", "N", "\n">>,
      <<"F", "I", "X">>,
      <<>> }

\* strategy values of a reply that are not JSON strings: the number 1 (truthy)
\* and the number 0 (falsy), each written as a one-token value
JsonOne == <<"#1">>
JsonZero == <<"#0">>
NonTextStrategies == {JsonOne, JsonZero}

\* line 134: .strip() is called on a truthy value that is no str: AttributeError
StrategyRaises(text) == text = JsonOne

\* (data.get("strategy") or STRATEGY_ABORT).strip().upper()
StripUpper(text) ==
    IF text = JsonZero \/ text = <<>> THEN STRATEGY_ABORT ELSE Upper(Strip(text))

\* the name of a strategy, as recover returns it
StrategyName(chars) ==
    CASE chars = STRATEGY_RETRY -> "RETRY"
      [] chars = STRATEGY_REPLAN -> "REPLAN"
      [] OTHER -> "ABORT"

\* lines 134-136: the strategy recover acts on
CoerceStrategy(text) ==
    LET strategy == StripUpper(text)
    IN IF strategy \notin {STRATEGY_RETRY, STRATEGY_REPLAN, STRATEGY_ABORT}
       THEN "ABORT" ELSE StrategyName(strategy)

\* the steps a strategist reply can carry: with an explicit step_id or without one
ReplySteps ==
    [kind : StepKinds] \cup [step_id : {Id(i) : i \in 1..MaxId}, kind : StepKinds]

\* sequences of at most n reply steps
RECURSIVE ReplyStepSeqs(_)
ReplyStepSeqs(n) ==
    IF n = 0 THEN {<<>>}
    ELSE LET shorter == ReplyStepSeqs(n - 1)
         IN shorter \cup {Append(q, x) : q \in {t \in shorter : Len(t) = n - 1}, x \in ReplySteps}

\* sequences of at most n elements of S
RECURSIVE SeqsUpTo(_, _)
SeqsUpTo(S, n) ==
    IF n = 0 THEN {<<>>}
    ELSE LET shorter == SeqsUpTo(S, n - 1)
         IN shorter \cup {Append(q, x) : q \in {t \in shorter : Len(t) = n - 1}, x \in S}

\* recover on its own: reply steps with ids up to RecMaxId, without an id, or with
\* the id null
ReplanReplySteps ==
    [kind : {"read"}] \cup [step_id : {Id(i) : i \in 1..RecMaxId} \cup {NoneId}, kind : {"read"}]

\* recover on its own: the replies of the strategist.  The strategy of any JSON
\* type with at most one new step; REPLAN with new steps of every shape; REPLAN
\* and ABORT with a second reason or without one
ReplanReplies ==
    [strategy : StrategyTexts \cup NonTextStrategies,
     reason : {"strategist_reason"},
     new_steps : SeqsUpTo(ReplanReplySteps, 1)]
      \cup [strategy : {STRATEGY_REPLAN},
            reason : {"strategist_reason"},
            new_steps : SeqsUpTo(ReplanReplySteps, RecMaxNew)]
      \cup [strategy : {STRATEGY_REPLAN, STRATEGY_ABORT},
            reason : {"second_reason"},
            new_steps : {<<>>}]
      \cup [strategy : {STRATEGY_REPLAN, STRATEGY_ABORT},
            new_steps : {<<>>}]

\* the replies of the strategist (_call_llm): {strategy, reason, new_steps}
Replies ==
    [strategy : {STRATEGY_RETRY, STRATEGY_REPLAN, STRATEGY_ABORT, <<"F","I","X">>},
     reason : {"strategist_reason"}, new_steps : ReplyStepSeqs(MaxNew)]

\* max() compares the ids pairwise with >: a None among two or more ids is a TypeError
MaxStepIdRaises(plan) ==
    Len(plan) >= 2 /\ \E i \in 1..Len(plan) : plan[i].step_id = NoneId

\* the largest of the integers of a non-empty sequence of ids
RECURSIVE MaxOf(_)
MaxOf(ids) ==
    IF Len(ids) = 1 THEN ids[1][1]
    ELSE LET m == MaxOf(Tail(ids))
         IN IF ids[1][1] > m THEN ids[1][1] ELSE m

\* max((s.get("step_id", 0) for s in state.plan), default=0): an id, None for
\* the plan whose only step has the id None
MaxStepId(plan) ==
    IF plan = <<>> THEN Id(0)
    ELSE IF Len(plan) = 1 THEN plan[1].step_id
    ELSE Id(MaxOf([i \in 1..Len(plan) |-> plan[i].step_id]))

\* line 149: isinstance(st, dict) and st.get("step_id") is None
LacksId(step) == "step_id" \notin DOMAIN step \/ step.step_id = NoneId

\* lines 147-150 raise TypeError: in max(), or in None + 1 + i for a step to number
RenumberRaises(plan, new_steps) ==
    /\ new_steps # <<>>
    /\ \/ MaxStepIdRaises(plan)
       \/ /\ MaxStepId(plan) = NoneId
          /\ \E j \in 1..Len(new_steps) : LacksId(new_steps[j])

\* lines 147-150: new steps without a step_id get max_id + 1 + i (i from 0)
Renumber(new_steps, max_id) ==
    [j \in 1..Len(new_steps) |->
        IF ~LacksId(new_steps[j])
        THEN new_steps[j]
        ELSE [step_id |-> Id(max_id[1] + 1 + (j - 1)), kind |-> new_steps[j].kind]]

\* faulty variant: REPLAN keeps every result
DropFailed_None(results, feedback) == results

\* faulty variant: REPLAN clears every result
DropFailed_All(results, feedback) == EmptyDict

\* lines 142-144: drop the results of the steps whose verdict is FAILED
DropFailed(results, feedback) ==
    [k \in {x \in DOMAIN results :
                ~(x \in DOMAIN feedback /\ feedback[x].status = "FAILED")}
        |-> results[k]]

\* faulty variant: the ceiling test is off by one
CeilingReached_OffByOne(retry_count) == retry_count > max_retries

\* line 129: the retry ceiling is reached
CeilingReached(retry_count) == retry_count >= max_retries

\* faulty variant: a REPLAN is not counted
NextRetryCount_Same(retry_count) == retry_count

\* faulty variant: a REPLAN counts twice
NextRetryCount_Twice(retry_count) == retry_count + 2

\* line 152
NextRetryCount(retry_count) == retry_count + 1

\* faulty variant: REPLAN puts the new steps in place of the plan
AppendSteps_Replace(plan, new_steps) == new_steps

\* line 151: state.plan = list(state.plan) + new_steps
AppendSteps(plan, new_steps) == plan \o new_steps

\* a text is truthy
Truthy(text) == text # None /\ text # ""

\* line 138: data.get("reason", "")
ReplyReason(data) == IF "reason" \in DOMAIN data THEN data.reason ELSE ""

\* faulty variant: ABORT always stores the strategist's reason as the error
AbortError_Overwrite(error, recovery_reason) == recovery_reason

\* line 163: state.error or state.memory.get("recovery_reason", ...); the key is
\* always there, written at line 138
AbortError(error, recovery_reason) == IF Truthy(error) THEN error ELSE recovery_reason

\* _call_llm does not return: self._llm.generate (line 107) is outside the try of
\* lines 112-117 and raises what the client raises, and the compensation branch
\* raises TypeError on a step id None (lines 85 and 91)
StrategistRaised == [raised |-> TRUE]

\* RecoveryAgent.recover on what the strategist does, a reply or an exception:
\* [state, strategy, llm_called]; line 133 is outside any try, so an exception of
\* _call_llm leaves recover with current_phase written and nothing else
RecoverOutcome(st, data) ==
    LET st0 == [st EXCEPT !.current_phase = "recovery"]
    IN IF CeilingReached(st.retry_count)
       THEN [state |-> [st0 EXCEPT !.error = "max_retries_reached"],
             strategy |-> "ABORT", llm_called |-> FALSE]
       ELSE IF data = StrategistRaised
       THEN [state |-> st0, strategy |-> "raised", llm_called |-> TRUE]
       ELSE IF StrategyRaises(data.strategy)
       THEN [state |-> st0, strategy |-> "raised", llm_called |-> TRUE]
       ELSE LET strategy == CoerceStrategy(data.strategy)
                st1 == [st0 EXCEPT !.memory = Put(@, "recovery_reason", ReplyReason(data))]
            IN IF strategy = "REPLAN"
               THEN IF RenumberRaises(st.plan, data.new_steps)
                    THEN [state |->
                             [st1 EXCEPT
                                 !.execution_results = DropFailed(@, st.verification_feedback)],
                          strategy |-> "raised", llm_called |-> TRUE]
                    ELSE [state |->
                        [st1 EXCEPT
                            !.execution_results = DropFailed(@, st.verification_feedback),
                            !.plan = IF data.new_steps = <<>> THEN @
                                     ELSE AppendSteps(@, Renumber(data.new_steps, MaxStepId(st.plan))),
                            !.retry_count = NextRetryCount(@)],
                     strategy |-> strategy, llm_called |-> TRUE]
               ELSE IF strategy = "ABORT"
               THEN [state |->
                        [st1 EXCEPT !.error = AbortError(@, st1.memory["recovery_reason"])],
                     strategy |-> strategy, llm_called |-> TRUE]
               ELSE [state |-> st1, strategy |-> strategy, llm_called |-> TRUE]

(***************************************************************************)
(* Initial states: the task state after parse and plan.                    *)
(***************************************************************************)
\* planning_agent.py lines 85-93: a step of the LLM's reply is kept when it has the
\* key step_id, whatever the value: the position of the step, as the prompt asks,
\* or null
PlannerIds(i) == {Id(i), NoneId}

\* the plans of the planner of at most m steps
PlansUpTo(m) ==
    UNION { { [i \in 1..n |-> [step_id |-> g[i], kind |-> f[i]]] :
                f \in [1..n -> StepKinds],
                g \in {h \in [1..n -> UNION {PlannerIds(i) : i \in 1..n}] :
                          \A i \in 1..n : h[i] \in PlannerIds(i)} }
            : n \in 0..m }

InitPlans == PlansUpTo(MaxPlan)

\* the AOSState that _state_from_parsed constructs (intent_parser.py lines 124-141)
\* from a reply without constraints, suggested tools or clarification questions,
\* by a parser without historical lessons: memory holds the four keys of
\* memory_dict, intent_confidence being 'high' for a confidence of at least 0.7
\* and 'low' below
NewState(confident) ==
    [ plan |-> <<>>,
      execution_results |-> EmptyDict,
      verification_feedback |-> EmptyDict,
      retry_count |-> 0,
      current_phase |-> "understanding",
      error |-> None,
      memory |-> [constraints |-> <<>>,
                  suggested_tools |-> <<>>,
                  intent_confidence |-> IF confident THEN "high" ELSE "low",
                  clarification_questions |-> <<>>] ]

\* IntentParser._state_from_parsed: lines 142-144 on a confidence below 0.7; with
\* no clarification questions the error is the fixed low-confidence text
ParsedState(confident) ==
    IF confident THEN NewState(confident)
    ELSE [NewState(confident) EXCEPT !.current_phase = "awaiting_clarification",
                                     !.error = "low_confidence_text"]

\* faulty variant: a plan taken from the cache is marked as an unlisted phase
PlanPhase_Cached(cache_hit) == IF cache_hit THEN "cached" ELSE "planning"

\* AOSState(): the defaults of the fields (core/state.py lines 25-78)
UnboundState ==
    [ plan |-> <<>>,
      execution_results |-> EmptyDict,
      verification_feedback |-> EmptyDict,
      retry_count |-> 0,
      current_phase |-> None,
      error |-> None,
      memory |-> EmptyDict ]

\* PlanningAgent.plan: the phase it leaves
PlanPhase(cache_hit) == IF cache_hit THEN "planning_from_cache" ELSE "planning"

\* PlanningAgent.plan: a plan from the semantic cache (never empty) or from the LLM
PlannedState(st, plan, cache_hit) ==
    [st EXCEPT !.plan = plan, !.current_phase = PlanPhase(cache_hit)]

\* IntentParser._state_from_parsed followed by PlanningAgent.plan
InitState(plan, confident, cache_hit) ==
    PlannedState(ParsedState(confident), plan, cache_hit)

\* the task states the planner hands over: the plan from the LLM or, when not
\* empty, from the cache; the intent understood or in need of clarification
PlannedStates(plans) ==
    { InitState(plan, confident, cache_hit) :
        plan \in plans, confident \in BOOLEAN, cache_hit \in BOOLEAN }
      \ { InitState(<<>>, confident, TRUE) : confident \in BOOLEAN }

\* no call made yet
NoCall ==
    [ op |-> "none", mode |-> "", executed |-> <<>>, outcomes |-> <<>>, retried |-> {},
      checked |-> <<>>,
      blocked |-> 0,
      allow_retry_failed |-> FALSE, resumed |-> 0, pending |-> 0, repeat |-> FALSE,
      strategy |-> "", llm_called |-> FALSE, lesson |-> "none",
      new_steps |-> <<>>, dropped |-> {} ]

Init ==
    /\ state \in PlannedStates(InitPlans)
    /\ last = NoCall
    /\ approved = {}
    /\ succeeded = {}
    /\ pc = "api"
    /\ auto_approve = FALSE
    /\ recover_calls = 0
    /\ exec_count = NoExecutions

(***************************************************************************)
(* The operations, called directly on one task state.                      *)
(***************************************************************************)
\* the elements of a sequence
Range(q) == {q[i] : i \in 1..Len(q)}

\* no entry of execution_results is a failure
NoFailedResult(st) ==
    \A k \in DOMAIN st.execution_results : st.execution_results[k].success

\* the most recent call was a run that was not stopped by the gateway and left
\* the plan completed with no failures: every step has a result, none failed
CleanPass ==
    /\ last.op = "run" /\ last.blocked = 0
    /\ NoFailedResult(state)
    /\ \A i \in 1..Len(state.plan) :
          StepKey(state.plan[i].step_id) \in DOMAIN state.execution_results

\* the effect of execution_agent.run(state) on state, last, approved and succeeded
RunCall ==
    \E r \in RunOutcomes(state) :
        /\ state' = r.state
        /\ last' = [NoCall EXCEPT !.op = "run", !.mode = r.mode, !.executed = r.executed,
                                  !.outcomes = r.outcomes,
                                  !.retried = r.retried,
                                  !.checked = r.checked, !.blocked = r.blocked,
                                  !.allow_retry_failed = r.allow_retry_failed,
                                  !.resumed = IF last.op = "approve_step" /\ r.mode = "resume"
                                              THEN last.pending ELSE 0,
                                  !.pending = IF r.mode \in {"full", "resume"}
                                              THEN r.blocked ELSE last.pending,
                                  !.repeat = CleanPass]
        /\ approved' = approved \ Range(r.executed)
        /\ succeeded' = succeeded \cup r.succeeded

\* the effect of gateway.approve_step(state)
ApproveCall ==
    /\ state' = ApproveStepState(state)
    /\ last' = [NoCall EXCEPT !.op = "approve_step", !.pending = last.pending]
    /\ UNCHANGED succeeded
    /\ approved' = approved \cup
                   { i \in 1..Len(state.plan) :
                       /\ "pending_approval_step_id" \in DOMAIN state.memory
                       /\ state.plan[i].step_id = state.memory["pending_approval_step_id"] }

\* the effect of verification_agent.verify(state, use_semantic), use_semantic one of
\* flags
VerifyWith(flags) ==
    \E use_semantic \in flags :
      \E replies \in [1..Len(state.plan) ->
                       IF use_semantic THEN SemanticReplies ELSE {"text"}] :
        /\ \A i \in 1..Len(state.plan) :
              i \notin SemanticCalls(state, use_semantic) => replies[i] = "text"
        /\ state' = VerifyState(state, use_semantic, replies)
        /\ last' = [NoCall EXCEPT !.op = "verify", !.pending = last.pending,
                                  !.llm_called = SemanticCalls(state, use_semantic) # {}]
        /\ UNCHANGED <<approved, succeeded>>

\* verify called with either value of use_semantic
VerifyCall == VerifyWith(BOOLEAN)

\* what memory_manager.append_lesson can do: write the lesson, or raise
PersistOutcomes == {"saved", "failed"}

\* faulty variant: an exception of append_lesson leaves recover
PersistLesson_Raises(r, persist) ==
    IF r.strategy # "REPLAN" THEN r @@ [lesson |-> "none"]
    ELSE IF persist = "failed" THEN [r EXCEPT !.strategy = "raised"] @@ [lesson |-> persist]
    ELSE r @@ [lesson |-> persist]

\* recovery_agent.py lines 153-161: a REPLAN ends by handing the lesson to the
\* memory manager inside try/except Exception: pass; whatever append_lesson does,
\* the state and the strategy stay as the branch has made them
PersistLesson(r, persist) ==
    IF r.strategy # "REPLAN" THEN r @@ [lesson |-> "none"]
    ELSE r @@ [lesson |-> persist]

\* the effect of recovery_agent.recover(state), the strategist answering from
\* replies or raising, and append_lesson ending as one of persists; at the ceiling
\* the strategist is not asked, so nothing is drawn.  The record of the call
\* keeps the new_steps of the reply of a REPLAN and the keys of the results the
\* call removed
RecoverWith(replies, persists) ==
    \E data \in IF CeilingReached(state.retry_count)
                 THEN {StrategistRaised} ELSE replies \cup {StrategistRaised} :
      \E persist \in IF RecoverOutcome(state, data).strategy = "REPLAN"
                      THEN persists ELSE {"none"} :
        LET r == PersistLesson(RecoverOutcome(state, data), persist)
        IN /\ state' = r.state
           /\ last' = [NoCall EXCEPT !.op = "recover", !.strategy = r.strategy,
                                     !.llm_called = r.llm_called,
                                     !.lesson = r.lesson,
                                     !.new_steps = IF r.strategy = "REPLAN"
                                                   THEN data.new_steps ELSE <<>>,
                                     !.dropped = DOMAIN state.execution_results
                                                    \ DOMAIN r.state.execution_results,
                                     !.pending = last.pending]
           /\ UNCHANGED <<approved, succeeded>>

\* the effect of recovery_agent.recover(state)
RecoverCall == RecoverWith(Replies, PersistOutcomes)

\* main.py lines 132-136: the user refuses the pending step
DenyCall ==
    /\ state.current_phase = "awaiting_user_approval"
    /\ state' = [state EXCEPT !.current_phase = "execution", !.error = "user_denied"]
    /\ last' = [NoCall EXCEPT !.op = "deny", !.pending = last.pending]
    /\ UNCHANGED <<approved, succeeded>>

Run == pc = "api" /\ RunCall /\ UNCHANGED <<pc, auto_approve, recover_calls, exec_count>>

ApproveStep == pc = "api" /\ ApproveCall /\ UNCHANGED <<pc, auto_approve, recover_calls, exec_count>>

Verify == pc = "api" /\ VerifyCall /\ UNCHANGED <<pc, auto_approve, recover_calls, exec_count>>

Recover == pc = "api" /\ RecoverCall /\ UNCHANGED <<pc, auto_approve, recover_calls, exec_count>>

Deny == pc = "api" /\ DenyCall /\ UNCHANGED <<pc, auto_approve, recover_calls, exec_count>>

\* the caller sets the one-shot flag: state.set_memory("allow_retry_failed_steps", True)
SetAllowRetry ==
    /\ pc = "api"
    /\ "allow_retry_failed_steps" \notin DOMAIN state.memory
    /\ state' = [state EXCEPT !.memory = Put(@, "allow_retry_failed_steps", TRUE)]
    /\ last' = [NoCall EXCEPT !.op = "set_memory", !.pending = last.pending]
    /\ UNCHANGED <<approved, succeeded, pc, auto_approve, recover_calls, exec_count>>

Next == Run \/ ApproveStep \/ Verify \/ Recover \/ Deny \/ SetAllowRetry

Spec == Init /\ [][Next]_vars

(***************************************************************************)
(* core/state.py: the functions of AOSState a caller can use on the task   *)
(* state between the calls above.  No code of the repository calls them.   *)
(***************************************************************************)
\* largest retry_count the model lets increment_retry reach
MaxRetryCount == 2

\* the call ids handed to add_execution_result and add_verification_feedback: the
\* keys of the plan's steps and the id add_tool_call gives
CallIds(st) == {StepKey(st.plan[i].step_id) : i \in 1..Len(st.plan)} \cup {<<"tool_call_", Id(0)>>}

\* AOSState.add_execution_result: the entry has no exit_code
AddExecutionResult(st, call_id, success) ==
    [st EXCEPT !.execution_results = Put(@, call_id, [success |-> success])]

\* AOSState.add_verification_feedback
AddVerificationFeedback(st, call_id, feedback) ==
    [st EXCEPT !.verification_feedback = Put(@, call_id, feedback)]

\* AOSState.increment_retry
IncrementRetry(st) == [st EXCEPT !.retry_count = @ + 1]

\* AOSState.reset_retry
ResetRetry(st) == [st EXCEPT !.retry_count = 0]

\* AOSState.set_memory
SetMemory(st, key, value) == [st EXCEPT !.memory = Put(@, key, value)]

\* the keys and values handed to set_memory: the flag and the pending pointer that
\* run reads, and a key no operation reads
MemoryItems ==
    { <<"allow_retry_failed_steps", TRUE>>, <<"allow_retry_failed_steps", FALSE>>,
      <<"pending_approval_step_id", NoneId>>, <<"note", "text">> }

StateFrame == UNCHANGED <<approved, succeeded, pc, auto_approve, recover_calls, exec_count>>

StateAddExecutionResult ==
    /\ pc = "state_api"
    /\ \E call_id \in CallIds(state), success \in BOOLEAN :
         state' = AddExecutionResult(state, call_id, success)
    /\ last' = [NoCall EXCEPT !.op = "add_execution_result", !.pending = last.pending]
    /\ StateFrame

StateAddVerificationFeedback ==
    /\ pc = "state_api"
    /\ \E call_id \in CallIds(state), status \in {"SUCCESS", "FAILED"} :
         state' = AddVerificationFeedback(state, call_id,
                                          [status |-> status, reason |-> "caller"])
    /\ last' = [NoCall EXCEPT !.op = "add_verification_feedback", !.pending = last.pending]
    /\ StateFrame

StateIncrementRetry ==
    /\ pc = "state_api"
    /\ state.retry_count < MaxRetryCount
    /\ state' = IncrementRetry(state)
    /\ last' = [NoCall EXCEPT !.op = "increment_retry", !.pending = last.pending]
    /\ StateFrame

StateResetRetry ==
    /\ pc = "state_api"
    /\ state' = ResetRetry(state)
    /\ last' = [NoCall EXCEPT !.op = "reset_retry", !.pending = last.pending]
    /\ StateFrame

StateSetMemory ==
    /\ pc = "state_api"
    /\ \E item \in MemoryItems : state' = SetMemory(state, item[1], item[2])
    /\ last' = [NoCall EXCEPT !.op = "set_memory", !.pending = last.pending]
    /\ StateFrame

StateRun ==
    pc = "state_api" /\ RunCall /\ UNCHANGED <<pc, auto_approve, recover_calls, exec_count>>

StateVerify ==
    pc = "state_api" /\ VerifyWith(BOOLEAN)
    /\ UNCHANGED <<pc, auto_approve, recover_calls, exec_count>>

StateApiInit ==
    /\ state \in {InitState(plan, TRUE, FALSE) : plan \in InitPlans}
    /\ last = NoCall
    /\ approved = {}
    /\ succeeded = {}
    /\ pc = "state_api"
    /\ auto_approve = FALSE
    /\ recover_calls = 0
    /\ exec_count = NoExecutions

\* run and verify with the caller's own writes to the state in between
StateApiNext ==
    \/ StateRun \/ StateVerify
    \/ StateAddExecutionResult \/ StateAddVerificationFeedback
    \/ StateIncrementRetry \/ StateResetRetry \/ StateSetMemory

StateApiSpec == StateApiInit /\ [][StateApiNext]_vars

(***************************************************************************)
(* The whole life of a task state: IntentParser.parse, PlanningAgent.plan, *)
(* then the operations above in any order.                                 *)
(***************************************************************************)
LifecycleInit ==
    /\ \E confident \in BOOLEAN : state = ParsedState(confident)
    /\ last = NoCall
    /\ approved = {}
    /\ succeeded = {}
    /\ pc = "parsed"
    /\ auto_approve = FALSE
    /\ recover_calls = 0
    /\ exec_count = NoExecutions

\* planner.plan(state); plan can raise before any write to the state
\* (self._llm.generate at planning_agent.py line 77 is outside the try of line 83,
\* and dict(s) of line 192 raises on a cached plan whose entries are no objects):
\* the state stays as parse returned it, in the caller's hands
LifecyclePlan ==
    /\ pc = "parsed"
    /\ \/ \E plan \in InitPlans, cache_hit \in BOOLEAN :
            /\ cache_hit => plan # <<>>
            /\ state' = PlannedState(state, plan, cache_hit)
            /\ last' = [NoCall EXCEPT !.op = "plan"]
       \/ /\ state' = state
          /\ last' = [NoCall EXCEPT !.op = "plan", !.strategy = "raised"]
    /\ pc' = "api"
    /\ UNCHANGED <<approved, succeeded, auto_approve, recover_calls, exec_count>>

LifecycleNext == LifecyclePlan \/ Next

LifecycleSpec == LifecycleInit /\ [][LifecycleNext]_vars

(***************************************************************************)
(* main.py: run_full_pipeline (lines 89-175).                              *)
(***************************************************************************)
\* lines 141-143
all_done(st) ==
    st.plan = <<>> \/ \A i \in 1..Len(st.plan) :
                          StepKey(st.plan[i].step_id) \in DOMAIN st.execution_results

\* run_full_pipeline is entered: no agent has been called, and the local
\* variable state is not bound yet (the model holds UnboundState in its place)
PipelineInit ==
    /\ state = UnboundState
    /\ pc = "parse"
    /\ last = NoCall
    /\ approved = {}
    /\ succeeded = {}
    /\ auto_approve \in BOOLEAN
    /\ recover_calls = 0
    /\ exec_count = NoExecutions

\* lines 89-97: intent_parser.parse(user_input); a confidence under 0.7 returns
\* before the planner is called; an exception of parse (self._llm.generate at
\* intent_parser.py line 65 is outside the try of line 71; so are the float() of
\* line 105 and the list() of lines 114-115) leaves run_full_pipeline, line 89
\* being outside any try, with no state bound
PipeParse ==
    /\ pc = "parse"
    /\ \/ \E confident \in BOOLEAN :
            /\ state' = ParsedState(confident)
            /\ pc' = IF confident THEN "plan" ELSE "done"
            /\ last' = [NoCall EXCEPT !.op = "parse"]
       \/ /\ state' = state
          /\ pc' = "raised"
          /\ last' = [NoCall EXCEPT !.op = "parse", !.strategy = "raised"]
    /\ UNCHANGED <<approved, succeeded, auto_approve, recover_calls, exec_count>>

\* lines 99-104: planner.plan(state); an empty plan returns; an exception of
\* plan leaves run_full_pipeline (line 99 is outside any try), the state being
\* the parsed one
PipePlan ==
    /\ pc = "plan"
    /\ \/ \E plan \in PlansUpTo(PipeMaxPlan), cache_hit \in BOOLEAN :
            /\ cache_hit => plan # <<>>
            /\ state' = PlannedState(state, plan, cache_hit)
            /\ pc' = IF plan = <<>> THEN "done" ELSE "execute"
            /\ last' = [NoCall EXCEPT !.op = "plan"]
       \/ /\ state' = state
          /\ pc' = "raised"
          /\ last' = [NoCall EXCEPT !.op = "plan", !.strategy = "raised"]
    /\ UNCHANGED <<approved, succeeded, auto_approve, recover_calls, exec_count>>

\* lines 110-147: one round of the inner loop
PipeRun ==
    /\ pc = "execute"
    /\ RunCall
    /\ pc' = IF state'.current_phase = "awaiting_user_approval" THEN "approval"
             ELSE IF all_done(state') THEN "verify"
             ELSE "execute"
    /\ exec_count' = CountExecutions(exec_count, last'.executed)
    /\ UNCHANGED <<auto_approve, recover_calls>>

\* lines 127-130 and 137-139: --yes, or the user answers y
PipeApprove ==
    /\ pc = "approval"
    /\ ApproveCall
    /\ pc' = "execute"
    /\ UNCHANGED <<auto_approve, recover_calls, exec_count>>

\* lines 131-136: the user answers anything else
PipeDeny ==
    /\ pc = "approval"
    /\ ~auto_approve
    /\ DenyCall
    /\ pc' = "verify"
    /\ UNCHANGED <<auto_approve, recover_calls, exec_count>>

\* lines 150-155: verify(state), use_semantic left at its default
PipeVerify ==
    /\ pc = "verify"
    /\ VerifyWith({FALSE})
    /\ pc' = IF has_verification_failures(state') THEN "recover" ELSE "done"
    /\ UNCHANGED <<auto_approve, recover_calls, exec_count>>

\* faulty variant: RETRY goes back to execution like REPLAN
AfterRecover_RetryLoops(strategy) ==
    IF strategy \in {"REPLAN", "RETRY"} THEN "execute" ELSE "done"

\* lines 166-173: ABORT breaks, REPLAN continues the outer loop, RETRY breaks
AfterRecover(strategy) == IF strategy = "REPLAN" THEN "execute" ELSE "done"

\* lines 158-173; an exception of recover, the strategist's included, leaves
\* run_full_pipeline (line 158 is outside any try)
PipeRecover ==
    /\ pc = "recover"
    /\ RecoverCall
    /\ recover_calls' = recover_calls + 1
    /\ pc' = IF last'.strategy = "raised" THEN "raised" ELSE AfterRecover(last'.strategy)
    /\ UNCHANGED <<auto_approve, exec_count>>

PipelineNext == PipeParse \/ PipePlan \/ PipeRun \/ PipeApprove \/ PipeDeny \/ PipeVerify \/ PipeRecover

\* every call of the pipeline returns, so the loop always takes its next step
PipelineSpec == PipelineInit /\ [][PipelineNext]_vars /\ WF_vars(PipelineNext)

(***************************************************************************)
(* recover called on its own on a planned task, with replies of every      *)
(* shape (ids given, missing or mixed; strategy of any JSON type).         *)
(***************************************************************************)
\* the plans recover is called on: the ids the position, null, or a negative number
RecPlannerIds(i) == {Id(i), NoneId, Id(0 - 5)}

RecPlans ==
    UNION { { [i \in 1..n |-> [step_id |-> g[i], kind |-> "read"]] :
                g \in {h \in [1..n -> UNION {RecPlannerIds(i) : i \in 1..n}] :
                          \A i \in 1..n : h[i] \in RecPlannerIds(i)} }
            : n \in 0..RecMaxPlan }

ReplanInit ==
    /\ state \in PlannedStates(RecPlans)
    /\ last = NoCall
    /\ approved = {}
    /\ succeeded = {}
    /\ pc = "replan"
    /\ auto_approve = FALSE
    /\ recover_calls = 0
    /\ exec_count = NoExecutions

ReplanVerify == pc = "replan" /\ VerifyCall /\ UNCHANGED <<pc, auto_approve, recover_calls, exec_count>>

ReplanRecover ==
    pc = "replan" /\ RecoverWith(ReplanReplies, PersistOutcomes) /\ UNCHANGED <<pc, auto_approve, recover_calls, exec_count>>

ReplanNext == ReplanVerify \/ ReplanRecover

ReplanSpec == ReplanInit /\ [][ReplanNext]_vars

(***************************************************************************)
(* PermissionGateway.verify_step called on its own, on arbitrary step      *)
(* dicts, with or without a state.                                         *)
(***************************************************************************)
\* step descriptions handed to the gateway: neutral, risky and dangerous keywords,
\* paths inside and outside the workspace, a drive-letter path, the empty text, a
\* keyword spelt with the Kelvin sign, paths followed by CJK text, a drive letter
\* that only IGNORECASE accepts, two paths with an arrow (no word character) between
GwDescriptions ==
    { <<"s","h","o","w"," ","a",".","t","x","t">>,
      <<"w","r","i","t","e"," ","a",".","t","x","t">>,
      <<"r","e","m","o","v","e"," ","a",".","t","x","t">>,
      <<"r","e","m","o","v","e"," ","a","n","d"," ","w","r","i","t","e">>,
      <<"s","h","o","w"," ","/","h","o","m","e","/","u">>,
      <<"s","h","o","w"," ","/","w","s","/","a",".","t","x","t">>,
      <<"s","h","o","w"," ","/","w","s","/",".",".","/","h","o","m","e">>,
      <<"s","h","o","w"," ","/","U76EE","U5F55">>,
      <<>>,
      <<"W","r","i","t","e"," ","A">>,
      <<"l","i","s","t"," ","/">>,
      <<"s","h","o","w"," ","C",":","/","x">>,
      <<"N","E","T","W","O","R","U212A">>,
      <<"s","h","o","w"," ","/","w","s","U8FD4">>,
      <<"U67E5","U770B"," ","/","w","s","U7684","U6587","U4EF6">>,
      <<"s","h","o","w"," ","U0130",":","/","x">>,
      <<"s","h","o","w"," ","/","w","s","/","a","U2192","/","h","o","m","e","/","u">> }

\* tool names: allow-listed, risky, unknown, empty, padded mixed-case, padded with
\* a newline or a tab
GwTools ==
    { <<"f","i","l","e","_","r","e","a","d","e","r">>,
      <<"f","i","l","e","_","w","r","i","t","e","r">>,
      <<"l","i","s","t","_","d","i","r">>,
      <<"v","i","e","w","e","r">>,
      <<>>,
      <<" ","F","i","l","e","_","R","e","a","d","e","r"," ">>,
      <<"f","i","l","e","_","s","y","s","t","e","m","_","r","e","a","d","e","r">>,
      <<"f","i","l","e","_","r","e","a","d","e","r","\n">>,
      <<"\t","l","i","s","t","_","d","i","r">> }

\* path arguments of a step: none, step['parameters'], a top-level key
GwExtras ==
    { EmptyDict,
      [parameters |-> [path |-> <<"/","h","o","m","e","/","u">>]],
      [parameters |-> [path |-> <<"a",".","t","x","t">>]],
      [parameters |-> [file |-> <<"/","w","s","/","a",".","t","x","t">>]],
      [target |-> <<"/","h","o","m","e","/","u">>] }

\* the step's id: present, or missing (step.get("step_id") is then None)
GwStepIds == { [step_id |-> Id(1)], [step_id |-> Id(2)], EmptyDict }

\* the step dicts handed to verify_step
GwSteps ==
    { [description |-> d, tool |-> t] @@ x @@ i :
        d \in GwDescriptions, t \in GwTools, x \in GwExtras, i \in GwStepIds }

\* PermissionGateway.verify_step: the StepVerificationResult of a step dict
VerifyStepResult(step) ==
    LET c == Classify(step)
    IN [ allowed |-> c.allowed,
         risk_level |-> c.risk_level,
         reason |-> c.reason,
         step_id |-> IF "step_id" \in DOMAIN step THEN step.step_id ELSE NoneId,
         step_snapshot |-> step ]

\* faulty variant: the state is marked whatever the verdict and the caller's choice
VerifyStepState_Always(st, result, with_state) == ApplyAwaitingApproval(st, result)

\* state after verify_step(step, state): _apply_awaiting_approval on every
\* return that is not the allow-list one, and only when a state is supplied
VerifyStepState(st, result, with_state) ==
    IF with_state /\ ~result.allowed THEN ApplyAwaitingApproval(st, result) ELSE st

\* the states a caller hands to verify_step: a fresh one, or one a run has left
GwStates ==
    PlannedStates(InitPlans)
        \cup UNION { {r.state : r \in RunOutcomes(st)} : st \in PlannedStates(InitPlans) }

GatewayInit ==
    /\ state \in GwStates
    /\ last = NoCall
    /\ approved = {}
    /\ succeeded = {}
    /\ pc = "gateway"
    /\ auto_approve = FALSE
    /\ recover_calls = 0
    /\ exec_count = NoExecutions

\* one call gateway.verify_step(step) or gateway.verify_step(step, state)
VerifyStepCall ==
    /\ pc = "gateway"
    /\ \E step \in GwSteps, with_state \in BOOLEAN :
         LET result == VerifyStepResult(step)
         IN /\ last' = [op |-> "verify_step", step |-> step, result |-> result,
                        with_state |-> with_state]
            /\ state' = VerifyStepState(state, result, with_state)
    /\ pc' = "checked"
    /\ UNCHANGED <<approved, succeeded, auto_approve, recover_calls, exec_count>>

GatewayNext == VerifyStepCall

GatewaySpec == GatewayInit /\ [][GatewayNext]_vars

(***************************************************************************)
(* sandbox/docker_manager.py: one DockerManager, its caller thread, the     *)
(* worker thread of _exec_with_timeout and the docker daemon.  The variable *)
(* state holds                                                              *)
(*   _container_id : the tracked container (0: None)                        *)
(*   containers    : the status of every container the manager has started  *)
(*   caller        : "idle", "waiting" (in future.result) or "joining" (the *)
(*                   timeout was raised inside the with block, whose exit   *)
(*                   is ThreadPoolExecutor.shutdown(wait=True))             *)
(*   worker        : "none", "submitted", "exec" (inside exec_run), or what *)
(*                   _run ended with: "exit_0", "exit_1", "raise"           *)
(* containers.run is taken to succeed.                                      *)
(***************************************************************************)
\* container states as the daemon reports them; "removed": containers.get raises NotFound
DockStatus == {"running", "paused", "exited", "removed"}

\* DockerManager.__init__; caller and worker are the two threads of an execute
\* call, abandoned counts the worker threads a returned call has left running, and
\* timed_out tells that some call has returned through the timeout
DockerInitState ==
    [ _container_id |-> 0, containers |-> <<>>, caller |-> "idle", worker |-> "none",
      abandoned |-> 0, timed_out |-> FALSE ]

\* DockerManager._start_container
StartContainer(st) ==
    [st EXCEPT !.containers = Append(@, "running"),
               !._container_id = Len(st.containers) + 1]

\* ensure_container reuses the tracked container: it exists and its status is "running"
TrackedRunning(st) ==
    st._container_id # 0 /\ st.containers[st._container_id] = "running"

\* faulty variant: ensure_container starts a container on every call
EnsureContainerState_AlwaysStart(st) == StartContainer(st)

\* DockerManager.ensure_container: the manager and daemon afterwards
EnsureContainerState(st) ==
    IF TrackedRunning(st) THEN st ELSE StartContainer(st)

\* faulty variant: a failure while stopping leaves the container tracked
StopOutcomes_KeepOnFailure(st) ==
    IF st._container_id = 0 THEN {st}
    ELSE IF st.containers[st._container_id] = "removed"
    THEN {st}
    ELSE { st,
           [st EXCEPT !.containers[st._container_id] = "exited"],
           [st EXCEPT !.containers[st._container_id] = "removed", !._container_id = 0] }

\* DockerManager.stop: what it can leave behind.  containers.get raises NotFound for
\* a removed container; c.stop or c.remove may fail; every exception is swallowed.
StopOutcomes(st) ==
    IF st._container_id = 0 THEN {st}
    ELSE IF st.containers[st._container_id] = "removed"
    THEN {[st EXCEPT !._container_id = 0]}
    ELSE { [st EXCEPT !._container_id = 0],
           [st EXCEPT !.containers[st._container_id] = "exited", !._container_id = 0],
           [st EXCEPT !.containers[st._container_id] = "removed", !._container_id = 0] }

\* what a finished call or step leaves in last: the container id returned (0: none)
\* and the result of an execute call
DockCall(op, id, result) == [op |-> op, id |-> id, result |-> result]

\* a step of the docker model leaves the pipeline's variables alone
DockFrame == UNCHANGED <<approved, succeeded, pc, auto_approve, recover_calls, exec_count>>

\* room for one more container within the bound
CanStart(st) == TrackedRunning(st) \/ Len(st.containers) < DockMaxContainers

DockerInit ==
    /\ state = DockerInitState
    /\ last = DockCall("none", 0, "None")
    /\ approved = {}
    /\ succeeded = {}
    /\ pc = "docker"
    /\ auto_approve = FALSE
    /\ recover_calls = 0
    /\ exec_count = NoExecutions

\* the caller calls ensure_container()
DockEnsure ==
    /\ pc = "docker" /\ state.caller = "idle" /\ CanStart(state)
    /\ state' = EnsureContainerState(state)
    /\ last' = DockCall("ensure_container", state'._container_id, "None")
    /\ DockFrame

\* the caller calls stop()
DockStop ==
    /\ pc = "docker" /\ state.caller = "idle"
    /\ state' \in StopOutcomes(state)
    /\ last' = DockCall("stop", 0, "None")
    /\ DockFrame

\* the daemon side: a running container exits or is paused, a container is removed
\* from outside (docker rm, scripts/clean_env.py)
DockDaemon ==
    /\ pc = "docker"
    /\ \E i \in 1..Len(state.containers), status \in DockStatus \ {"running"} :
         /\ state.containers[i] # "removed"
         /\ state.containers[i] # status
         /\ status = "paused" => state.containers[i] = "running"
         /\ state' = [state EXCEPT !.containers[i] = status]
    /\ last' = DockCall("daemon", 0, "None")
    /\ DockFrame

\* execute_python / execute_shell: ex.submit(_run), then future.result(timeout=...)
ExecSubmit ==
    /\ pc = "docker" /\ state.caller = "idle"
    /\ state' = [state EXCEPT !.caller = "waiting", !.worker = "submitted"]
    /\ last' = DockCall("submit", 0, "None")
    /\ DockFrame

\* the worker thread: ensure_container(), containers.get, exec_run begins
WorkerEnsure ==
    /\ pc = "docker" /\ state.worker = "submitted" /\ CanStart(state)
    /\ state' = [EnsureContainerState(state) EXCEPT !.worker = "exec"]
    /\ last' = DockCall("worker_ensure", state'._container_id, "None")
    /\ DockFrame

\* what _run can end with: a sandbox outcome, or an exception that is the builtin
\* TimeoutError (socket.timeout is one), raised by the daemon's client
WorkerOutcomes == Outcomes \cup {"raise_timeout"}

\* the worker thread: exec_run returns or raises; nothing obliges it ever to
WorkerFinish ==
    /\ pc = "docker" /\ state.worker = "exec"
    /\ \E o \in WorkerOutcomes : state' = [state EXCEPT !.worker = o]
    /\ last' = DockCall("worker_finish", 0, "None")
    /\ DockFrame

\* the work of _run is over
WorkerOver(st) == st.worker \in WorkerOutcomes

\* line 109: except FuturesTimeoutError.  concurrent.futures.TimeoutError is the
\* builtin TimeoutError (Python 3.11), so the clause also catches a TimeoutError
\* that _run raised and future.result re-raised
CaughtAsTimeout(outcome) == outcome = "raise_timeout"

\* what the execute call gives its caller when _run is over: what _run returned,
\* the exception it raised, or the timeout triple of line 110
ExecResultOf(outcome) == IF CaughtAsTimeout(outcome) THEN "timeout" ELSE outcome

\* future.result returns what _run returned, or raises what it raised
ExecReturn ==
    /\ pc = "docker" /\ state.caller = "waiting" /\ WorkerOver(state)
    /\ state' = [state EXCEPT !.caller = "idle", !.worker = "none",
                              !.timed_out = @ \/ CaughtAsTimeout(state.worker)]
    /\ last' = DockCall("execute", 0, ExecResultOf(state.worker))
    /\ DockFrame

\* future.result raises TimeoutError after EXEC_TIMEOUT_SECONDS: _run is not over
ExecTimeout ==
    /\ pc = "docker" /\ state.caller = "waiting" /\ ~WorkerOver(state)
    /\ state' = [state EXCEPT !.caller = "joining"]
    /\ last' = DockCall("timeout", 0, "None")
    /\ DockFrame

\* faulty variant: the executor is shut down without waiting for its thread
ExecutorJoined_NoWait(st) == TRUE

\* the with block is left: shutdown(wait=True) returns once the worker thread is over
ExecutorJoined(st) == WorkerOver(st)

\* the work of _run is going on: submitted to the executor and not over
WorkerBusy(st) == st.worker \in {"submitted", "exec"}

\* the except clause returns ("", timeout message, -1)
ExecTimeoutReturn ==
    /\ pc = "docker" /\ state.caller = "joining" /\ ExecutorJoined(state)
    /\ state' = [state EXCEPT !.caller = "idle", !.worker = "none",
                              !.abandoned = IF WorkerBusy(state) THEN @ + 1 ELSE @,
                              !.timed_out = TRUE]
    /\ last' = DockCall("execute", 0, "timeout")
    /\ DockFrame

DockerNext ==
    \/ DockEnsure \/ DockStop \/ DockDaemon \/ ExecSubmit \/ WorkerEnsure
    \/ WorkerFinish \/ ExecReturn \/ ExecTimeout \/ ExecTimeoutReturn

\* the caller thread runs and the timeout fires; the work inside the container is
\* under no obligation to end
DockerSpec ==
    /\ DockerInit /\ [][DockerNext]_vars
    /\ WF_vars(ExecReturn) /\ WF_vars(ExecTimeout) /\ WF_vars(ExecTimeoutReturn)

(***************************************************************************)
(* utils/llm_client.py: LLMClient.generate on the gemini provider.         *)
(***************************************************************************)
\* LLMConfig.max_retries (DEFAULT_MAX_RETRIES)
llm_max_retries == 3

\* LLMConfig.retry_backoff_base (DEFAULT_RETRY_BACKOFF_BASE)
retry_backoff_base == 1

\* the number of models of a tier in TIER_MODELS
TierModels == 1

\* the texts of the exceptions client.models.generate_content raises
ModelErrorTexts ==
    { <<"4","2","9"," ","R","e","s","o","u","r","c","e"," ","e","x","h","a","u","s","t","e","d">>,
      <<"5","0","0"," ","I","n","t","e","r","n","a","l"," ","e","r","r","o","r">>,
      <<"5","0","3"," ","S","e","r","v","i","c","e"," ","U","n","a","v","a","i","l","a","b","l","e">>,
      <<"5","0","2"," ","B","a","d"," ","G","a","t","e","w","a","y">>,
      <<"5","0","4"," ","D","e","a","d","l","i","n","e"," ","e","x","c","e","e","d","e","d">>,
      <<"4","0","4"," ","N","o","t"," ","F","o","u","n","d">>,
      <<"4","0","1"," ","U","n","a","u","t","h","o","r","i","z","e","d">> }

\* what one model call does: a response with text, a response without text, an
\* exception, or no answer within timeout_seconds
ModelOutcomes ==
    { [kind |-> "text", text |-> <<>>], [kind |-> "empty", text |-> <<>>],
      [kind |-> "timeout", text |-> <<>>] }
        \cup { [kind |-> "error", text |-> t] : t \in ModelErrorTexts }

\* "404" in err_str or "not found" in err_str
IsNotFoundText(err_str) ==
    Contains(<<"4","0","4">>, err_str) \/ Contains(<<"n","o","t"," ","f","o","u","n","d">>, err_str)

\* _infer_http_status_from_error
InferHttpStatus(text) ==
    LET t == Lower(text)
    IN IF Contains(<<"4","2","9">>, t) \/ Contains(<<"r","e","s","o","u","r","c","e"," ","e","x","h","a","u","s","t","e","d">>, t) \/ Contains(<<"q","u","o","t","a">>, t)
       THEN "429"
       ELSE IF IsNotFoundText(t) THEN "404"
       ELSE IF Contains(<<"5","0","0">>, t) \/ Contains(<<"i","n","t","e","r","n","a","l">>, t) THEN "500"
       ELSE IF Contains(<<"5","0","3">>, t) \/ Contains(<<"u","n","a","v","a","i","l","a","b","l","e">>, t) THEN "503"
       ELSE IF Contains(<<"t","i","m","e","o","u","t">>, t) THEN "408"
       ELSE "N/A"

\* the text of the RuntimeError raised for a 404 (lines 243-245 and 305-307)
NotFoundMessage == <<"A","P","I"," ","U8FD4","U56DE"," ","4","0","4">>

\* _call, lines 271-312: the loop over models_to_try, outs holding what each model
\* call does.  The value is what _call returns or raises.
RECURSIVE ModelLoop(_)
ModelLoop(outs) ==
    IF outs = <<>> THEN [kind |-> "return", value |-> "fallback", text |-> <<>>]
    ELSE LET o == Head(outs)
         IN IF o.kind = "text" THEN [kind |-> "return", value |-> "text", text |-> <<>>]
            ELSE IF o.kind = "empty" THEN ModelLoop(Tail(outs))
            ELSE IF IsNotFoundText(Lower(o.text))
            THEN [kind |-> "raise", value |-> "None", text |-> NotFoundMessage]
            ELSE IF InferHttpStatus(o.text) \in {"429", "500", "503", "502"}
            THEN ModelLoop(Tail(outs))
            ELSE [kind |-> "raise", value |-> "None", text |-> o.text]

\* _generate_gemini_with_timeout: future.result(timeout) raises TimeoutError, whose
\* text is empty, when the first model call does not answer in time
GeminiWithTimeout(outs) ==
    IF outs # <<>> /\ Head(outs).kind = "timeout"
    THEN [kind |-> "raise", value |-> "None", text |-> <<>>]
    ELSE ModelLoop(outs)

\* lines 247-253: the seconds slept before the next attempt
RECURSIVE Pow2(_)
Pow2(n) == IF n = 0 THEN 1 ELSE 2 * Pow2(n - 1)

BackoffSeconds(attempt, err_str) ==
    IF Contains(<<"4","2","9">>, err_str) \/ Contains(<<"r","e","s","o","u","r","c","e"," ","e","x","h","a","u","s","t","e","d">>, err_str) \/ Contains(<<"q","u","o","t","a">>, err_str)
    THEN <<5, 10, 20>>[(IF attempt < 2 THEN attempt ELSE 2) + 1]
    ELSE retry_backoff_base * Pow2(attempt)

\* the client before generate is called: configured tells that the provider is
\* gemini with a key and a client; attempt is the loop variable of
\* _generate_gemini_with_retry, calls counts the generate_content calls, seen holds
\* what each attempt's model call did, waits the seconds slept
LlmInitState(configured) ==
    [ configured |-> configured, done |-> "idle", value |-> "None", attempt |-> 0,
      calls |-> 0, seen |-> <<>>, waits |-> <<>> ]

LlmCall(op) == [op |-> op]

LlmFrame == UNCHANGED <<approved, succeeded, pc, auto_approve, recover_calls, exec_count>>

LlmInit ==
    /\ \E configured \in BOOLEAN : state = LlmInitState(configured)
    /\ last = LlmCall("none")
    /\ approved = {}
    /\ succeeded = {}
    /\ pc = "llm"
    /\ auto_approve = FALSE
    /\ recover_calls = 0
    /\ exec_count = NoExecutions

\* generate, lines 222-227, and the entry of _generate_gemini_with_retry: without a
\* configured client, or with no attempt to make, the local fallback is returned
LlmGenerate ==
    /\ pc = "llm" /\ state.done = "idle"
    /\ state' = IF state.configured /\ llm_max_retries > 0
                THEN [state EXCEPT !.done = "running"]
                ELSE [state EXCEPT !.done = "returned", !.value = "fallback"]
    /\ last' = LlmCall("generate")
    /\ LlmFrame

\* one round of the loop of _generate_gemini_with_retry (lines 233-254): the attempt
\* and what follows it: return, raise, or sleep and go on; after the last round
\* the local fallback is returned
LlmAttempt ==
    /\ pc = "llm" /\ state.done = "running"
    /\ \E outs \in [1..TierModels -> ModelOutcomes] :
         LET r == GeminiWithTimeout(outs)
             err_str == Lower(r.text)
             made == [state EXCEPT !.calls = @ + 1, !.seen = Append(@, outs[1])]
         IN state' =
              IF r.kind = "return"
              THEN [made EXCEPT !.done = "returned", !.value = r.value]
              ELSE IF IsNotFoundText(err_str)
              THEN [made EXCEPT !.done = "raised", !.value = "RuntimeError"]
              ELSE IF state.attempt < llm_max_retries - 1
              THEN [made EXCEPT !.attempt = @ + 1,
                                !.waits = Append(@, BackoffSeconds(state.attempt, err_str))]
              ELSE [made EXCEPT !.attempt = @ + 1,
                                !.done = "returned", !.value = "fallback"]
    /\ last' = LlmCall("attempt")
    /\ LlmFrame

LlmNext == LlmGenerate \/ LlmAttempt

LlmSpec == LlmInit /\ [][LlmNext]_vars

(***************************************************************************)
(* core/memory_manager.py: the lesson store kept in memory.json.           *)
(***************************************************************************)
\* largest cap (max_entries) handed to append_lesson
MemMaxCap == 2

\* number of distinct lessons
MemLessons == 2

\* longest lessons_learned list of the file the manager starts with
MemInitLen == 3

\* number of append_lesson calls followed
MemMaxAppends == 3

\* number of calls of the other writers of the file (record_successful_plan,
\* add_intent_to_cache, save_lessons, and the clean-up script) followed
MemMaxWrites == 2

\* longest successful_plans and intent_cache list of the file the manager starts with
MemInitOther == 1

\* the intents and user inputs handed to record_successful_plan and
\* add_intent_to_cache: empty, blank, two texts, and one with a space before it
MemTexts == { <<>>, <<" ">>, <<"a">>, <<"b">>, <<" ", "a">> }

\* the intents and user inputs of the entries the first file holds
MemStoredTexts == { <<"a">>, <<"b">> }

\* the file: missing, not readable as a JSON object, or a JSON object; the value of
\* lessons_learned is a list of lessons or something else
MemValues == { [is_list |-> FALSE, items |-> <<>>] }
                 \cup { [is_list |-> TRUE, items |-> q] : q \in SeqsUpTo(1..MemLessons, MemInitLen) }

\* the value of successful_plans: a list of entries, each known by its intent, or
\* something else
MemPlanValues == { [is_list |-> FALSE, items |-> <<>>] }
                 \cup { [is_list |-> TRUE, items |-> q] : q \in SeqsUpTo(MemStoredTexts, MemInitOther) }

\* the value of intent_cache: a list of entries, each known by its user_input, or
\* something else, which Python takes as false (null, 0, "", {}) or as true
MemCacheValues == { [is_list |-> FALSE, truthy |-> b, items |-> <<>>] : b \in BOOLEAN }
                 \cup { [is_list |-> TRUE, truthy |-> q # <<>>, items |-> q] :
                          q \in SeqsUpTo(MemStoredTexts, MemInitOther) }

MemOtherKeys == {"successful_plans", "intent_cache"}

\* the JSON objects: each of the three keys is there or not
MemData ==
    { p @@ c @@ l :
        p \in {EmptyDict} \cup { [successful_plans |-> v] : v \in MemPlanValues },
        c \in {EmptyDict} \cup { [intent_cache |-> v] : v \in MemCacheValues },
        l \in {EmptyDict} \cup { [lessons_learned |-> v] : v \in MemValues } }

MemFiles ==
    { [file |-> "missing", data |-> EmptyDict], [file |-> "corrupt", data |-> EmptyDict] }
        \cup { [file |-> "json", data |-> d] : d \in MemData }

\* MemoryManager._load_raw
LoadRaw(store) == IF store.file = "json" THEN store.data ELSE EmptyDict

\* MemoryManager._save_raw
SaveRaw(data) == [file |-> "json", data |-> data]

\* MemoryManager.load_lessons
LoadLessons(store) ==
    LET data == LoadRaw(store)
    IN IF "lessons_learned" \in DOMAIN data /\ data["lessons_learned"].is_list
       THEN data["lessons_learned"].items
       ELSE <<>>

\* MemoryManager.save_lessons
SaveLessons(store, lessons_learned) ==
    SaveRaw(Put(LoadRaw(store), "lessons_learned", [is_list |-> TRUE, items |-> lessons_learned]))

\* faulty variant: the first max_entries entries are kept
LastEntries_First(q, n) == SubSeq(q, 1, IF n < Len(q) THEN n ELSE Len(q))

\* q[-n:] for n >= 0 (q[-0:] is the whole list)
LastEntries(q, n) ==
    IF n = 0 \/ n >= Len(q) THEN q ELSE SubSeq(q, Len(q) - n + 1, Len(q))

\* MemoryManager.append_lesson
AppendLesson(store, lesson, max_entries) ==
    SaveLessons(store, LastEntries(Append(LoadLessons(store), lesson), max_entries))

\* MemoryManager.load_successful_plans
LoadSuccessfulPlans(store) ==
    LET data == LoadRaw(store)
    IN IF "successful_plans" \in DOMAIN data /\ data["successful_plans"].is_list
       THEN data["successful_plans"].items
       ELSE <<>>

\* the entries of q whose text, stripped, is not key
WithoutKey(q, key) == SelectSeq(q, LAMBDA e : Strip(e) # key)

\* MemoryManager.record_successful_plan: nothing is written for an empty intent or
\* an empty plan; an entry of the same stripped intent is replaced
RecordSuccessfulPlan(store, intent, has_plan, max_entries) ==
    IF intent = <<>> \/ ~has_plan THEN store
    ELSE LET plans == Append(WithoutKey(LoadSuccessfulPlans(store), Strip(intent)), Strip(intent))
         IN SaveRaw(Put(LoadRaw(store), "successful_plans",
                        [is_list |-> TRUE, items |-> LastEntries(plans, max_entries)]))

\* list(data.get("intent_cache") or []) and the reading of its entries raise when
\* the value is true and no list
AddIntentRaises(store, user_input) ==
    LET data == LoadRaw(store)
    IN /\ Strip(user_input) # <<>>
       /\ "intent_cache" \in DOMAIN data
       /\ ~data["intent_cache"].is_list
       /\ data["intent_cache"].truthy

\* MemoryManager.add_intent_to_cache: nothing is written for a blank user input or
\* when the call raises; an entry of the same stripped user input is replaced
AddIntentToCache(store, user_input, max_entries) ==
    IF Strip(user_input) = <<>> \/ AddIntentRaises(store, user_input) THEN store
    ELSE LET data == LoadRaw(store)
             old == IF "intent_cache" \in DOMAIN data THEN data["intent_cache"].items ELSE <<>>
             cache == LastEntries(Append(WithoutKey(old, Strip(user_input)), Strip(user_input)),
                                  max_entries)
         IN SaveRaw(Put(data, "intent_cache",
                        [is_list |-> TRUE, truthy |-> TRUE, items |-> cache]))

\* scripts/clean_env.py: memory.json is deleted when it is a file
CleanEnv(store) == [file |-> "missing", data |-> EmptyDict]

\* a manager on a file, and a caller that uses one cap; calls counts the
\* append_lesson calls and writes the calls of the other writers; since counts the
\* append_lesson calls after the last other writer, first holds the file that
\* writer left (or the first file), and history the lessons of that file followed
\* by the lessons appended since
MemInit ==
    /\ \E f \in MemFiles, cap \in 0..MemMaxCap :
          state = [store |-> f, cap |-> cap, calls |-> 0, writes |-> 0, since |-> 0,
                   history |-> LoadLessons(f), first |-> f]
    /\ last = [op |-> "none", lesson |-> 0, raised |-> FALSE]
    /\ approved = {}
    /\ succeeded = {}
    /\ pc = "memory"
    /\ auto_approve = FALSE
    /\ recover_calls = 0
    /\ exec_count = NoExecutions

MemFrame == UNCHANGED <<approved, succeeded, pc, auto_approve, recover_calls, exec_count>>

\* the caller's record after a writer other than append_lesson left the file new
AfterWrite(new) ==
    [state EXCEPT !.store = new, !.writes = @ + 1, !.since = 0,
                  !.history = LoadLessons(new), !.first = new]

\* one call append_lesson(lesson, max_entries=cap)
MemAppend ==
    /\ pc = "memory" /\ state.calls < MemMaxAppends
    /\ \E lesson \in 1..MemLessons :
         /\ state' = [state EXCEPT !.store = AppendLesson(@, lesson, state.cap),
                                   !.calls = @ + 1,
                                   !.since = @ + 1,
                                   !.history = Append(@, lesson)]
         /\ last' = [op |-> "append_lesson", lesson |-> lesson, raised |-> FALSE]
    /\ MemFrame

\* one call record_successful_plan(intent, plan, max_entries)
MemRecordPlan ==
    /\ pc = "memory" /\ state.writes < MemMaxWrites
    /\ \E intent \in MemTexts, has_plan \in BOOLEAN, max_entries \in 0..MemMaxCap :
         state' = AfterWrite(RecordSuccessfulPlan(state.store, intent, has_plan, max_entries))
    /\ last' = [op |-> "record_successful_plan", lesson |-> 0, raised |-> FALSE]
    /\ MemFrame

\* one call add_intent_to_cache(user_input, ..., max_entries)
MemAddIntent ==
    /\ pc = "memory" /\ state.writes < MemMaxWrites
    /\ \E user_input \in MemTexts, max_entries \in 0..MemMaxCap :
         /\ state' = AfterWrite(AddIntentToCache(state.store, user_input, max_entries))
         /\ last' = [op |-> "add_intent_to_cache", lesson |-> 0,
                     raised |-> AddIntentRaises(state.store, user_input)]
    /\ MemFrame

\* one call save_lessons(lessons)
MemSaveLessons ==
    /\ pc = "memory" /\ state.writes < MemMaxWrites
    /\ \E lessons \in SeqsUpTo(1..MemLessons, MemInitOther) :
         state' = AfterWrite(SaveLessons(state.store, lessons))
    /\ last' = [op |-> "save_lessons", lesson |-> 0, raised |-> FALSE]
    /\ MemFrame

\* one run of scripts/clean_env.py
MemClean ==
    /\ pc = "memory" /\ state.writes < MemMaxWrites
    /\ state' = AfterWrite(CleanEnv(state.store))
    /\ last' = [op |-> "clean_env", lesson |-> 0, raised |-> FALSE]
    /\ MemFrame

MemNext == MemAppend \/ MemRecordPlan \/ MemAddIntent \/ MemSaveLessons \/ MemClean

MemorySpec == MemInit /\ [][MemNext]_vars

(***************************************************************************)
(* Properties.                                                             *)
(***************************************************************************)
\* the gateway does not allow the step at plan index i
Blocked(st, i) == ~verify_step(st.plan[i]).allowed

\* the task state has a pending approval pointer
\* memory holds the key pending_approval_step_id
PointerStored(st) == "pending_approval_step_id" \in DOMAIN st.memory

\* the pending pointer is set: memory.get("pending_approval_step_id") is not None,
\* the test run makes (execution_agent.py lines 199-200)
HasPending(st) ==
    PointerStored(st) /\ st.memory["pending_approval_step_id"] # NoneId

\* the step at plan index i has a result, and it is a success
HasSuccess(st, i) ==
    /\ StepKey(st.plan[i].step_id) \in DOMAIN st.execution_results
    /\ st.execution_results[StepKey(st.plan[i].step_id)].success

\* C1: every sandbox execution of a step the gateway classifies RISKY or
\* DANGEROUS is preceded by an approve_step call made while that step was the
\* pending step and after the step's previous execution.
C1_ApprovalPrecedesExecution ==
    [][ last'.op = "run" =>
          \A i \in Range(last'.executed) : Blocked(state, i) => i \in approved ]_vars

\* C2: while current_phase is awaiting_user_approval the pending pointer is set,
\* and run executes nothing and leaves the whole task state as it is.
C2_AwaitingHoldsRun ==
    /\ [](state.current_phase = "awaiting_user_approval" => HasPending(state))
    /\ [][ (state.current_phase = "awaiting_user_approval" /\ last'.op = "run") =>
              /\ state' = state
              /\ last'.executed = <<>>
              /\ last'.checked = <<>> ]_vars

\* C2 witness: run was called in the awaiting phase with the one-shot flag set,
\* and the flag and the pointer are still there.
C2_Witness ==
    /\ last.op = "run" /\ last.mode = "awaiting"
    /\ state.current_phase = "awaiting_user_approval"
    /\ HasPending(state)
    /\ "allow_retry_failed_steps" \in DOMAIN state.memory

\* C3: after a block, approve_step followed by run executes the blocked step
\* exactly once, records its result, removes the pointer and leaves the phase at
\* execution.
C3_ApprovedStepRuns ==
    (last.op = "run" /\ last.resumed # 0) =>
        /\ last.executed = <<last.resumed>>
        /\ StepKey(state.plan[last.resumed].step_id) \in DOMAIN state.execution_results
        /\ ~PointerStored(state)
        /\ state.current_phase = "execution"

\* C4: in the run call that follows approve_step only the pending step is
\* executed, no other step's entry in execution_results is added or changed, and
\* the gateway is not consulted.
C4_OnlyPendingStepRuns ==
    [][ (last.op = "approve_step" /\ last.pending # 0 /\ last'.op = "run") =>
          /\ Range(last'.executed) \subseteq {last.pending}
          /\ last'.checked = <<>>
          /\ \A k \in (DOMAIN state.execution_results \cup DOMAIN state'.execution_results)
                        \ {StepKey(state.plan[last.pending].step_id)} :
                /\ k \in DOMAIN state.execution_results
                /\ k \in DOMAIN state'.execution_results
                /\ state'.execution_results[k] = state.execution_results[k] ]_vars

\* C5: when the gateway disallows a step in a full pass, run returns at once in
\* phase awaiting_user_approval with the pointer at that step; no later step is
\* executed or checked, and the blocked step is not executed.
C5_BlockStopsPass ==
    (last.op = "run" /\ last.blocked # 0) =>
        /\ last.mode = "full"
        /\ state.current_phase = "awaiting_user_approval"
        /\ PointerStored(state)
        /\ state.memory["pending_approval_step_id"] = state.plan[last.blocked].step_id
        /\ \A i \in Range(last.executed) : i < last.blocked
        /\ \A i \in Range(last.checked) : i <= last.blocked
        /\ last.checked[Len(last.checked)] = last.blocked

\* C5 witness: a pass stopped at a blocked step that has an unexecuted step after it.
C5_Witness ==
    /\ last.op = "run" /\ last.blocked # 0
    /\ last.blocked < Len(state.plan)
    /\ \E j \in (last.blocked + 1)..Len(state.plan) :
          StepKey(state.plan[j].step_id) \notin DOMAIN state.execution_results

\* C6 as claimed: once a step's execution has succeeded, no later run call
\* executes that step again, whatever the order of the calls.
C6_SuccessNeverRerun ==
    [][ last'.op = "run" => Range(last'.executed) \cap succeeded = {} ]_vars

\* C6 amended: run never executes a step that holds a successful result, and a
\* successful result stays in execution_results through run, verify,
\* approve_step and every recover call made directly after verify.
C6_SuccessKeptInOrder ==
    [][ /\ last'.op = "run" =>
              \A i \in Range(last'.executed) : ~HasSuccess(state, i)
        /\ (last'.op # "recover" \/ last.op = "verify") =>
              \A k \in DOMAIN state.execution_results :
                  state.execution_results[k].success =>
                      /\ k \in DOMAIN state'.execution_results
                      /\ state'.execution_results[k] = state.execution_results[k] ]_vars

\* C6 witness: after a REPLAN a run executed a step again while a step that had
\* succeeded before kept its result and was not executed.
C6_Witness ==
    /\ last.op = "run" /\ last.executed # <<>>
    /\ state.retry_count >= 1
    /\ \E i \in succeeded : HasSuccess(state, i) /\ i \notin Range(last.executed)

\* C7: a run directly after a run that left the plan completed without failures
\* makes no sandbox call and leaves execution_results as they are.
C7_SecondRunNoOp ==
    [][ (CleanPass /\ last'.op = "run") =>
          /\ last'.executed = <<>>
          /\ state'.execution_results = state.execution_results ]_vars

\* C7 witness: the second of two successive runs on a plan whose steps all succeeded.
C7_Witness ==
    /\ last.op = "run" /\ last.repeat
    /\ state.plan # <<>>
    /\ \A i \in 1..Len(state.plan) : HasSuccess(state, i)
    /\ last.executed = <<>>

\* C8: retry_count never exceeds max_retries; at the ceiling every recover
\* returns ABORT and applies no REPLAN.
C8_RetryCeiling ==
    /\ [](state.retry_count <= max_retries)
    /\ [][ (state.retry_count = max_retries /\ last'.op = "recover") =>
              /\ last'.strategy = "ABORT"
              /\ state'.retry_count = state.retry_count
              /\ state'.plan = state.plan ]_vars

\* C8 witness: recover was called at the ceiling and returned ABORT.
C8_Witness ==
    /\ last.op = "recover" /\ last.strategy = "ABORT"
    /\ state.retry_count = max_retries
    /\ state.current_phase = "recovery"

\* C9: recover called with retry_count >= max_retries returns ABORT without
\* calling the strategist, sets error and leaves plan, execution_results and
\* retry_count unchanged.
C9_CeilingAbortsWithoutStrategist ==
    [][ (state.retry_count >= max_retries /\ last'.op = "recover") =>
          /\ last'.strategy = "ABORT"
          /\ ~last'.llm_called
          /\ Truthy(state'.error)
          /\ state'.plan = state.plan
          /\ state'.execution_results = state.execution_results
          /\ state'.retry_count = state.retry_count ]_vars

\* C9 witness: a recover that did not call the strategist, on a task with results.
C9_Witness ==
    /\ last.op = "recover" /\ ~last.llm_called
    /\ state.error = "max_retries_reached"
    /\ DOMAIN state.execution_results # {}

\* run_full_pipeline has ended: it has returned, or an exception has left it
PipelineEnded == pc \in {"done", "raised"}

\* C10: with every approval granted run_full_pipeline terminates, and recover
\* is called at most max_retries + 1 times.
C10_PipelineTerminates ==
    /\ auto_approve => <>PipelineEnded
    /\ [](recover_calls <= max_retries + 1)

\* C10 witness: the pipeline ended after max_retries REPLANs and a last recover.
C10_Witness ==
    /\ pc = "done" /\ auto_approve
    /\ recover_calls = max_retries + 1
    /\ state.retry_count = max_retries

\* p is a prefix of q
IsPrefix(p, q) == Len(p) <= Len(q) /\ SubSeq(q, 1, Len(p)) = p

\* C11: across run, verify, approve_step and recover the plan before a call is a
\* prefix of the plan after it, and only a recover that returns REPLAN changes it.
C11_PlanOnlyGrows ==
    [][ /\ IsPrefix(state.plan, state'.plan)
        /\ state'.plan # state.plan =>
              (last'.op = "recover" /\ last'.strategy = "REPLAN") ]_vars

\* C11 witness: a REPLAN appended a step behind the planner's step.
C11_Witness ==
    /\ last.op = "recover" /\ last.strategy = "REPLAN"
    /\ Len(state.plan) = 2
    /\ state.plan[1].kind = "write" /\ state.plan[2].kind = "read"

\* id a is an integer greater than the integer id b
IdAbove(a, b) == a # NoneId /\ b # NoneId /\ a[1] > b[1]

\* no two steps of the plan share a step_id
UniqueIds(plan) ==
    \A i, j \in 1..Len(plan) : plan[i].step_id = plan[j].step_id => i = j

\* C12: after a REPLAN every appended step's id is greater than the id of every
\* step that was in the plan before, whatever new_steps the strategist returns.
C12_NewIdsAboveOld ==
    [][ (last'.op = "recover" /\ last'.strategy = "REPLAN") =>
          \A j \in (Len(state.plan) + 1)..Len(state'.plan) :
              \A i \in 1..Len(state.plan) :
                  IdAbove(state'.plan[j].step_id, state.plan[i].step_id) ]_vars

\* C13: if no two steps share a step_id before recover, no two steps share one
\* after it (neither a new step with an old one, nor two new steps).
C13_IdsStayUnique ==
    [][ (last'.op = "recover" /\ UniqueIds(state.plan)) => UniqueIds(state'.plan) ]_vars

\* C14: retry_count never decreases; it changes only in a recover that returns
\* REPLAN, and every such recover raises it by exactly 1.
C14_RetryCountFrame ==
    [][ /\ state'.retry_count >= state.retry_count
        /\ state'.retry_count # state.retry_count =>
              (last'.op = "recover" /\ last'.strategy = "REPLAN")
        /\ (last'.op = "recover" /\ last'.strategy = "REPLAN") =>
              state'.retry_count = state.retry_count + 1 ]_vars

\* C14 witness: a REPLAN with empty new_steps (the verified one-step plan is as
\* long as before) has been counted.
C14_Witness ==
    /\ last.op = "recover" /\ last.strategy = "REPLAN"
    /\ state.retry_count = 1
    /\ Len(state.plan) = 1
    /\ DOMAIN state.verification_feedback # {}

\* the verdict recorded for the step at plan index i is FAILED
FailedVerdict(st, i) ==
    LET key == StepKey(st.plan[i].step_id)
    IN key \in DOMAIN st.verification_feedback
       /\ st.verification_feedback[key].status = "FAILED"

\* a recover that returns REPLAN leaves no result under a FAILED verdict and
\* keeps, unchanged, every result under a SUCCESS verdict
ReplanDropsFailedOnly ==
    (last'.op = "recover" /\ last'.strategy = "REPLAN") =>
        \A key \in DOMAIN state.verification_feedback :
            IF state.verification_feedback[key].status = "FAILED"
            THEN key \notin DOMAIN state'.execution_results
            ELSE key \in DOMAIN state.execution_results =>
                    /\ key \in DOMAIN state'.execution_results
                    /\ state'.execution_results[key] = state.execution_results[key]

\* the steps a run pass attempted: executed, or submitted to the gateway
Attempted(call) == Range(call.executed) \cup Range(call.checked)

\* C15 as claimed: a REPLAN drops exactly the results under FAILED verdicts, and
\* the next full run pass attempts every dropped step again.
C15_DroppedStepsRetried ==
    [][ /\ ReplanDropsFailedOnly
        /\ (last.op = "recover" /\ last.strategy = "REPLAN"
              /\ last'.op = "run" /\ last'.mode = "full") =>
              \A i \in 1..Len(state.plan) :
                  FailedVerdict(state, i) => i \in Attempted(last') ]_vars

\* C15 amended: a REPLAN drops exactly the results under FAILED verdicts, and
\* the next full run pass attempts a step of every dropped step's id, up to the
\* step at which the gateway stops the pass.
C15_DroppedStepsRetriedUntilBlock ==
    [][ /\ ReplanDropsFailedOnly
        /\ (last.op = "recover" /\ last.strategy = "REPLAN"
              /\ last'.op = "run" /\ last'.mode = "full") =>
              \A i \in 1..Len(state.plan) :
                  (FailedVerdict(state, i) /\ (last'.blocked = 0 \/ i <= last'.blocked)) =>
                      \E j \in Attempted(last') :
                          state.plan[j].step_id = state.plan[i].step_id ]_vars

\* C15 witness: a full pass after a REPLAN executed a step whose earlier, failed
\* result the REPLAN had dropped.
C15_Witness ==
    /\ last.op = "run" /\ last.mode = "full"
    /\ state.retry_count >= 1
    /\ \E i \in Range(last.executed) :
          /\ FailedVerdict(state, i)
          /\ state.verification_feedback[StepKey(state.plan[i].step_id)].reason
                = "failed_or_exception"

\* the strategy of a reply is none of RETRY, REPLAN, ABORT (after strip and upper)
UnknownStrategy(text) ==
    \/ text \in NonTextStrategies
    \/ text = <<>>
    \/ StripUpper(text) \notin {STRATEGY_RETRY, STRATEGY_REPLAN, STRATEGY_ABORT}

\* C16: for every strategist reply recover returns one of RETRY, REPLAN, ABORT
\* without raising; for a reply whose strategy is none of the three it returns
\* ABORT and leaves plan, execution_results and retry_count unchanged.
C16_RecoverFailsClosed ==
    \A data \in ReplanReplies :
        LET r == RecoverOutcome(state, data)
        IN /\ r.strategy \in {"RETRY", "REPLAN", "ABORT"}
           /\ UnknownStrategy(data.strategy) =>
                 /\ r.strategy = "ABORT"
                 /\ r.state.plan = state.plan
                 /\ r.state.execution_results = state.execution_results
                 /\ r.state.retry_count = state.retry_count

\* C17: a recover that returns RETRY leaves plan, execution_results,
\* verification_feedback and retry_count unchanged, and run_full_pipeline ends
\* there: no further call is made.
C17_RetryStopsPipeline ==
    [][ /\ (last'.op = "recover" /\ last'.strategy = "RETRY") =>
              /\ state'.plan = state.plan
              /\ state'.execution_results = state.execution_results
              /\ state'.verification_feedback = state.verification_feedback
              /\ state'.retry_count = state.retry_count
              /\ pc' = "done"
        /\ pc = "done" => (pc' = "done" /\ last' = last /\ state' = state) ]_vars

\* C17 witness: the pipeline has ended on a RETRY.
C17_Witness ==
    /\ pc = "done"
    /\ last.op = "recover" /\ last.strategy = "RETRY"
    /\ state.current_phase = "recovery"

(***************************************************************************)
(* Gateway classification (GatewaySpec).                                   *)
(***************************************************************************)
\* the whitespace-separated words of a text (cur: the word being read)
RECURSIVE Words(_, _)
Words(s, cur) ==
    IF s = <<>> THEN (IF cur = <<>> THEN {} ELSE {cur})
    ELSE IF Head(s) \in Whitespace
    THEN (IF cur = <<>> THEN {} ELSE {cur}) \cup Words(Tail(s), <<>>)
    ELSE Words(Tail(s), Append(cur, Head(s)))

\* what a step says about paths, read without the gateway's regular expressions:
\* every word of description and tool, and every path argument, that begins with "/"
AbsolutePathsMentioned(step) ==
    LET words == Words(GetText(step, "description"), <<>>) \cup Words(GetText(step, "tool"), <<>>)
        top == {Strip(GetText(step, k)) : k \in PathKeys}
        params == IF "parameters" \in DOMAIN step
                  THEN {Strip(GetText(step.parameters, k)) : k \in PathKeys}
                  ELSE {}
    IN {w \in words \cup top \cup params : StartsWith(w, <<"/">>)}

\* the step mentions an absolute path that lies outside the workspace root
MentionsOutsidePath(step) ==
    \E w \in AbsolutePathsMentioned(step) : ~PathInWorkspace(w)

\* C18: every step that mentions, in its description, tool or path parameters, an
\* absolute path outside the workspace root is classified DANGEROUS and not allowed,
\* whatever its tool and keywords.
C18_OutsidePathIsDangerous ==
    (last.op = "verify_step" /\ MentionsOutsidePath(last.step))
        => (last.result.risk_level = "DANGEROUS" /\ ~last.result.allowed)

\* the part of C18 the code keeps: a path the gateway's own extraction finds outside
\* the workspace makes the step DANGEROUS whatever the tool and keywords
C18_ExtractedOutsidePathIsDangerous ==
    (last.op = "verify_step" /\ HasPathOutsideWorkspace(last.step))
        => (last.result.risk_level = "DANGEROUS" /\ ~last.result.allowed)

\* the tool name as verify_step compares it: (step.get("tool") or "").strip().lower()
NormTool(step) == Lower(Strip(GetText(step, "tool")))

\* the step matches the dangerous rules: outside path, dangerous keyword, dangerous tool
MatchesDangerous(step) ==
    \/ HasPathOutsideWorkspace(step)
    \/ AnyKeyword(DANGEROUS_KEYWORDS, Lower(GetText(step, "description")), NormTool(step))
    \/ NormTool(step) \in DANGEROUS_TOOLS

\* the step matches the risky rules: risky keyword, risky tool
MatchesRisky(step) ==
    \/ AnyKeyword(RISKY_KEYWORDS, Lower(GetText(step, "description")), NormTool(step))
    \/ NormTool(step) \in RISKY_TOOLS

\* the step matches no rule at all, the allow-list included
MatchesNoRule(step) ==
    ~MatchesDangerous(step) /\ ~MatchesRisky(step) /\ NormTool(step) \notin SAFE_TOOLS

\* C19: verify_step allows a step only together with risk level SAFE and only when
\* its tool is on the read-only allow-list; a step that matches no rule is RISKY and
\* not allowed.
C19_AllowOnlyAllowListed ==
    last.op = "verify_step" =>
        /\ last.result.allowed =>
             (last.result.risk_level = "SAFE" /\ NormTool(last.step) \in SAFE_TOOLS)
        /\ last.result.risk_level = "SAFE" => last.result.allowed
        /\ MatchesNoRule(last.step) =>
             (last.result.risk_level = "RISKY" /\ ~last.result.allowed)

\* a step with an unknown tool that matches no rule was refused as RISKY
C19_Witness ==
    /\ last.op = "verify_step"
    /\ MatchesNoRule(last.step)
    /\ NormTool(last.step) = <<"v","i","e","w","e","r">>
    /\ last.result.risk_level = "RISKY"
    /\ ~last.result.allowed

\* a dangerous keyword occurs in the description or the tool
HasDangerousKeyword(step) ==
    AnyKeyword(DANGEROUS_KEYWORDS, Lower(GetText(step, "description")), NormTool(step))

\* a risky keyword occurs in the description
RiskyKeywordInDescription(step) ==
    \E n \in 1..Len(RISKY_KEYWORDS) :
        Contains(RISKY_KEYWORDS[n], Lower(GetText(step, "description")))

\* C20: verify_step returns the most dangerous level that matches: a step matching a
\* dangerous keyword and also a risky keyword or a risky tool is DANGEROUS; any match
\* of a dangerous rule gives DANGEROUS, otherwise any match of a risky rule gives
\* RISKY; an allow-listed tool with a risky keyword in the description is never SAFE,
\* and is RISKY unless a dangerous rule matches too.
C20_MostDangerousLevelWins ==
    last.op = "verify_step" =>
        /\ (HasDangerousKeyword(last.step) /\ MatchesRisky(last.step))
             => last.result.risk_level = "DANGEROUS"
        /\ MatchesDangerous(last.step)
             => (last.result.risk_level = "DANGEROUS" /\ ~last.result.allowed)
        /\ (~MatchesDangerous(last.step) /\ MatchesRisky(last.step))
             => (last.result.risk_level = "RISKY" /\ ~last.result.allowed)
        /\ (NormTool(last.step) \in SAFE_TOOLS /\ RiskyKeywordInDescription(last.step))
             => /\ last.result.risk_level # "SAFE"
                /\ ~last.result.allowed
                /\ ~MatchesDangerous(last.step) => last.result.risk_level = "RISKY"

\* a step with a dangerous keyword, a risky keyword and a risky tool (and no path)
\* was classified DANGEROUS
C20_Witness ==
    /\ last.op = "verify_step"
    /\ HasDangerousKeyword(last.step)
    /\ RiskyKeywordInDescription(last.step)
    /\ NormTool(last.step) \in RISKY_TOOLS
    /\ ~HasPathOutsideWorkspace(last.step)
    /\ last.result.risk_level = "DANGEROUS"

\* an allow-listed tool with a risky keyword in the description, and nothing
\* dangerous, was classified RISKY
C20_AllowListedRiskyReached ==
    /\ last.op = "verify_step"
    /\ NormTool(last.step) \in SAFE_TOOLS
    /\ RiskyKeywordInDescription(last.step)
    /\ ~MatchesDangerous(last.step)
    /\ last.result.risk_level = "RISKY"

\* the memory keys _apply_awaiting_approval writes
PendingKeys == {"pending_approval_step", "pending_approval_risk", "pending_approval_step_id"}

\* C21: when verify_step refuses a step and a state is supplied, the state gets
\* current_phase awaiting_user_approval, error = the returned reason and
\* pending_approval_step_id = the step's id, while plan, execution_results,
\* retry_count, verification_feedback and every other memory key stay as they were;
\* when the step is allowed, or no state is supplied, the state is unchanged.
C21_VerifyStepFrame ==
    [][ last'.op = "verify_step" =>
          IF last'.with_state /\ ~last'.result.allowed
          THEN /\ state'.current_phase = "awaiting_user_approval"
               /\ state'.error = last'.result.reason
               /\ state'.memory["pending_approval_step_id"] =
                    (IF "step_id" \in DOMAIN last'.step THEN last'.step.step_id ELSE NoneId)
               /\ state'.plan = state.plan
               /\ state'.execution_results = state.execution_results
               /\ state'.retry_count = state.retry_count
               /\ state'.verification_feedback = state.verification_feedback
               /\ DOMAIN state'.memory = DOMAIN state.memory \cup PendingKeys
               /\ \A k \in DOMAIN state.memory \ PendingKeys :
                    state'.memory[k] = state.memory[k]
          ELSE state' = state ]_vars

\* verify_step refused step 2 on a supplied state that already held a result, and
\* the state now awaits approval of step 2 with that result still there
C21_Witness ==
    /\ last.op = "verify_step"
    /\ last.with_state
    /\ ~last.result.allowed
    /\ "step_id" \in DOMAIN last.step
    /\ state.current_phase = "awaiting_user_approval"
    /\ state.memory["pending_approval_step_id"] = Id(2)
    /\ state.execution_results # EmptyDict

(***************************************************************************)
(* approve_step, run and verify (Spec).                                    *)
(***************************************************************************)
\* the memory keys approve_step removes
DisplayedKeys == {"pending_approval_step", "pending_approval_risk"}

\* C22: approve_step sets current_phase to execution, clears error and removes the
\* displayed pending step and risk from memory; it leaves pending_approval_step_id,
\* every other memory key, plan, execution_results and retry_count as they were.
\* pending_approval_step_id leaves memory only in a run call, and the run call that
\* follows an approval removes it.
C22_ApproveStepFrame ==
    [][ /\ last'.op = "approve_step" =>
              /\ state'.current_phase = "execution"
              /\ state'.error = None
              /\ DOMAIN state'.memory = DOMAIN state.memory \ DisplayedKeys
              /\ \A k \in DOMAIN state'.memory : state'.memory[k] = state.memory[k]
              /\ state'.plan = state.plan
              /\ state'.execution_results = state.execution_results
              /\ state'.retry_count = state.retry_count
        /\ ( /\ "pending_approval_step_id" \in DOMAIN state.memory
             /\ "pending_approval_step_id" \notin DOMAIN state'.memory )
              => last'.op = "run"
        /\ ( /\ last.op = "approve_step"
             /\ last'.op = "run"
             /\ "pending_approval_step_id" \in DOMAIN state.memory )
              => "pending_approval_step_id" \notin DOMAIN state'.memory ]_vars

\* approve_step has just acted on a state that awaited approval of a plan step: the
\* phase is execution, the displayed fields are gone and the step id is still there
C22_Witness ==
    /\ last.op = "approve_step"
    /\ approved # {}
    /\ state.current_phase = "execution"
    /\ state.error = None
    /\ "pending_approval_step_id" \in DOMAIN state.memory
    /\ DOMAIN state.memory \cap DisplayedKeys = {}
    /\ state.execution_results # EmptyDict

\* the execution_results key of plan index i
KeyOf(st, i) == StepKey(st.plan[i].step_id)

\* C23: when the sandbox call of a step raises, run (which returns normally) has
\* recorded for that step a result with success false and the exception text, and
\* the pass has gone on: every later step of the pass was executed, or was skipped
\* for the result it already had, or lies at or after the step the gateway blocked.
C23_RaiseIsRecorded ==
    last.op = "run" =>
        \A k \in 1..Len(last.executed) :
            LET i == last.executed[k]
                later == {last.executed[n] : n \in (k + 1)..Len(last.executed)}
            IN last.outcomes[k] = "raise" =>
                 /\ KeyOf(state, i) \in DOMAIN state.execution_results
                 /\ (\A j \in later : KeyOf(state, j) # KeyOf(state, i)) =>
                        /\ state.execution_results[KeyOf(state, i)].success = FALSE
                        /\ "error" \in DOMAIN state.execution_results[KeyOf(state, i)]
                        /\ state.execution_results[KeyOf(state, i)].error = "exception"
                 /\ last.mode = "full" =>
                        \A j \in (i + 1)..Len(state.plan) :
                            \/ j \in later
                            \/ KeyOf(state, j) \in DOMAIN state.execution_results
                            \/ (last.blocked > i /\ last.blocked <= j)

\* in one full pass the sandbox call of a step raised and a later step with
\* another id was executed after it; the raised step's result is the failure record
C23_Witness ==
    /\ last.op = "run"
    /\ last.mode = "full"
    /\ Len(last.executed) >= 2
    /\ last.outcomes[1] = "raise"
    /\ last.executed[2] > last.executed[1]
    /\ KeyOf(state, last.executed[2]) # KeyOf(state, last.executed[1])
    /\ state.execution_results[KeyOf(state, last.executed[1])]
         = [success |-> FALSE, error |-> "exception"]

\* the step at plan index i has a result with success true and exit code 0
SucceededResult(st, i) ==
    /\ KeyOf(st, i) \in DOMAIN st.execution_results
    /\ st.execution_results[KeyOf(st, i)].success = TRUE
    /\ "exit_code" \in DOMAIN st.execution_results[KeyOf(st, i)]
    /\ st.execution_results[KeyOf(st, i)].exit_code = 0

\* C24: after verify on a non-empty plan every plan step has a verdict, computed
\* from the execution_results of that moment: SUCCESS exactly when the step has a
\* result with success true and exit code 0, FAILED otherwise (also without a result);
\* so no earlier verdict survives; has_verification_failures is true iff some
\* verdict is FAILED.
C24_VerdictsAreFresh ==
    (last.op = "verify" /\ state.plan # <<>>) =>
        /\ \A i \in 1..Len(state.plan) :
             /\ KeyOf(state, i) \in DOMAIN state.verification_feedback
             /\ state.verification_feedback[KeyOf(state, i)].status =
                  (IF SucceededResult(state, i) THEN "SUCCESS" ELSE "FAILED")
        /\ has_verification_failures(state) <=>
             (\E i \in 1..Len(state.plan) : ~SucceededResult(state, i))

\* verify has just run after a recovery: one plan step is SUCCESS, another has no
\* result and is FAILED
C24_Witness ==
    /\ last.op = "verify"
    /\ state.retry_count > 0
    /\ \E i, j \in 1..Len(state.plan) :
         /\ SucceededResult(state, i)
         /\ state.verification_feedback[KeyOf(state, i)].status = "SUCCESS"
         /\ KeyOf(state, j) \notin DOMAIN state.execution_results
         /\ state.verification_feedback[KeyOf(state, j)].status = "FAILED"

(***************************************************************************)
(* DockerManager (DockerSpec).                                             *)
(***************************************************************************)
\* C25: when the work inside the container is not over within the timeout, the
\* execute call returns to its caller without waiting for that work: once the
\* timeout has been raised the call returns, whether or not the exec ever completes.
C25_TimeoutReturnsWithoutWaiting ==
    (state.caller = "joining") ~> (state.caller = "idle")

\* what the code does instead: the timeout result is returned only once the work
\* of the worker thread is over
C25_TimeoutWaitsForWorker ==
    [][ (state.caller = "joining" /\ state'.caller = "idle") => WorkerOver(state) ]_vars

\* the containers started by the manager that still exist (not stopped and removed)
Existing(st) == {i \in 1..Len(st.containers) : st.containers[i] # "removed"}

\* the containers started by the manager that have not even been stopped
Unstopped(st) == {i \in 1..Len(st.containers) : st.containers[i] \in {"running", "paused"}}

\* C26: at any time at most one container started by the manager exists that has
\* not been stopped and removed.
C26_AtMostOneContainer == Cardinality(Existing(state)) <= 1

\* the rest of C26, which the code keeps: ensure_container returns the tracked
\* container without starting another while it is running, starts one only when
\* none is tracked or the tracked one is not running, and two consecutive calls
\* return the same id
C26_EnsureReusesTracked ==
    [][ last'.op = "ensure_container" =>
          /\ TrackedRunning(state) => (state' = state /\ last'.id = state._container_id)
          /\ Len(state'.containers) > Len(state.containers) => ~TrackedRunning(state)
          /\ last.op = "ensure_container" => last'.id = last.id ]_vars

\* two containers started by the manager are running at once
C26_TwoRunning ==
    Cardinality({i \in Unstopped(state) : state.containers[i] = "running"}) >= 2

\* C27: stop returns normally whatever the daemon does, also when stopping or
\* removing the container fails; after it the manager tracks no container; a stop
\* with nothing tracked (a second stop) changes nothing; and the next execute call,
\* finding nothing tracked, starts a fresh container and tracks it.
C27_StopIsIdempotent ==
    [][ /\ last'.op = "stop" =>
              /\ last'.result = "None"
              /\ state'._container_id = 0
              /\ state._container_id = 0 => state' = state
        /\ (last.op = "stop" /\ last'.op = "stop") => state' = state
        /\ (state._container_id = 0 /\ last'.op = "worker_ensure") =>
              /\ Len(state'.containers) = Len(state.containers) + 1
              /\ state'._container_id = Len(state'.containers)
              /\ state'.containers[state'._container_id] = "running"
              /\ \A i \in 1..Len(state.containers) :
                    state'.containers[i] = state.containers[i] ]_vars

\* stop has returned and the manager tracks nothing, while a container that a stop
\* failed to stop is still running
C27_Witness ==
    /\ last.op = "stop"
    /\ state._container_id = 0
    /\ \E i \in 1..Len(state.containers) : state.containers[i] = "running"

(***************************************************************************)
(* run_full_pipeline: refusal (PipelineSpec).                              *)
(***************************************************************************)
\* the user has just refused the step at plan index i
DeniedNow(i) == last.op = "deny" /\ last.pending = i

\* the run that has just returned executed the step at plan index i in the sandbox
ExecutedNow(i) == last.op = "run" /\ i \in Range(last.executed)

\* no plan of the pipeline grows beyond this length
PipePlanCap == PipeMaxPlan + MaxNew * (max_retries + 1)

\* C28: once the user has refused a step at the approval prompt, no later run of the
\* same pipeline call executes that step in the sandbox, also after a REPLAN has
\* sent the loop back to execution.
C28_DeniedStepNeverRuns ==
    \A i \in 1..PipePlanCap : [](DeniedNow(i) => [](~ExecutedNow(i)))

(***************************************************************************)
(* Phases (LifecycleSpec).                                                 *)
(***************************************************************************)
\* the phases the state model lists
ListedPhases ==
    {"understanding", "planning", "execution", "awaiting_user_approval",
     "verification", "recovery"}

\* C29 as stated: in every state reachable through parse, plan, run, verify_step,
\* approve_step, verify and recover, current_phase is one of understanding,
\* planning, execution, awaiting_user_approval, verification, recovery.
C29_PhaseIsListed == state.current_phase \in ListedPhases

\* the phases the code sets (what holds in place of C29): the six listed
\* phases, awaiting_clarification (set by parse on low confidence) and
\* planning_from_cache (set by plan when the plan comes from the semantic cache)
C29_PhaseIsKnown ==
    state.current_phase \in ListedPhases \cup {"awaiting_clarification", "planning_from_cache"}

\* a low-confidence task has been planned from the cache and nothing has run yet
C29_Witness ==
    /\ last.op = "plan"
    /\ state.current_phase = "planning_from_cache"
    /\ state.plan # <<>>
    /\ state.memory["intent_confidence"] = "low"

(***************************************************************************)
(* Order of execution within a pass (Spec).                                *)
(***************************************************************************)
\* C30: within one run pass the sandbox calls are made in plan order, one after the
\* other: the plan indices executed by a run, in call order, are strictly
\* increasing (so no step is executed twice in a pass), there is one recorded
\* outcome per call, and every executed step has its result in execution_results.
C30_PlanOrderWithinPass ==
    last.op = "run" =>
        /\ \A k \in 1..(Len(last.executed) - 1) : last.executed[k] < last.executed[k + 1]
        /\ Len(last.outcomes) = Len(last.executed)
        /\ \A k \in 1..Len(last.executed) :
             /\ last.executed[k] \in 1..Len(state.plan)
             /\ KeyOf(state, last.executed[k]) \in DOMAIN state.execution_results

\* one pass executed two steps of the plan, the earlier one first
C30_Witness ==
    /\ last.op = "run"
    /\ last.mode = "full"
    /\ Len(last.executed) >= 2
    /\ last.executed[1] < last.executed[2]
    /\ KeyOf(state, last.executed[1]) # KeyOf(state, last.executed[2])

(***************************************************************************)
(* What a full pass covers (Spec).                                         *)
(***************************************************************************)
\* the last plan index a full pass reaches: the one before the step the gateway
\* blocked, or the end of the plan
ReachedUpTo(call, plan) == IF call.blocked = 0 THEN Len(plan) ELSE call.blocked - 1

\* C31: after a full-plan run pass every step before the first gateway-blocked
\* step, or every step of the plan when none is blocked, has an entry in
\* execution_results; and a failed execution does not end the pass: every later
\* step up to the block is executed in the same pass unless it is skipped for a
\* result its key already had (from before the pass, or written earlier in it).
C31_FullPassCoversPlan ==
    [][ (last'.op = "run" /\ last'.mode = "full") =>
          LET cut == ReachedUpTo(last', state'.plan)
          IN /\ state'.plan = state.plan
             /\ \A j \in 1..cut : KeyOf(state', j) \in DOMAIN state'.execution_results
             /\ \A k \in 1..Len(last'.executed) :
                  last'.outcomes[k] # "exit_0" =>
                     \A j \in (last'.executed[k] + 1)..cut :
                        \/ \E n \in (k + 1)..Len(last'.executed) : last'.executed[n] = j
                        \/ KeyOf(state, j) \in DOMAIN state.execution_results
                        \/ \E n \in 1..Len(last'.executed) :
                              /\ last'.executed[n] < j
                              /\ KeyOf(state, last'.executed[n]) = KeyOf(state, j) ]_vars

\* a full pass that no gateway verdict stopped executed a step that exited with a
\* non-zero code and then a later step with another id; every step has a result
C31_Witness ==
    /\ last.op = "run"
    /\ last.mode = "full"
    /\ last.blocked = 0
    /\ Len(last.executed) >= 2
    /\ last.outcomes[1] = "exit_1"
    /\ last.executed[2] > last.executed[1]
    /\ KeyOf(state, last.executed[2]) # KeyOf(state, last.executed[1])
    /\ state.execution_results[KeyOf(state, last.executed[1])].success = FALSE
    /\ \A j \in 1..Len(state.plan) : KeyOf(state, j) \in DOMAIN state.execution_results

(***************************************************************************)
(* The one-shot retry flag (Spec).                                         *)
(***************************************************************************)
\* the one-shot flag is set in the task memory
RetryFlagSet(st) ==
    /\ "allow_retry_failed_steps" \in DOMAIN st.memory
    /\ st.memory["allow_retry_failed_steps"] = TRUE

\* C32: run executes a step whose recorded result is a failure only in a pass that
\* started with allow_retry_failed_steps set; a pass that gets past the empty-plan
\* and awaiting-approval checks leaves the flag removed, so the next pass starts
\* without it unless it is set again; a run stopped by one of the two checks
\* leaves the memory as it was.
C32_RetryFlagIsOneShot ==
    [][ last'.op = "run" =>
          /\ last'.retried # {} => RetryFlagSet(state)
          /\ \A k \in 1..Len(last'.executed) :
                FailedBefore(state.execution_results, KeyOf(state, last'.executed[k]))
                   => RetryFlagSet(state)
          /\ last'.allow_retry_failed = RetryFlagSet(state) \/ last'.mode \notin {"full", "resume"}
          /\ last'.mode \in {"full", "resume"} =>
                "allow_retry_failed_steps" \notin DOMAIN state'.memory
          /\ last'.mode \notin {"full", "resume"} => state'.memory = state.memory ]_vars

\* a pass that started with the flag executed a step again whose recorded result
\* was a failure, and the flag is gone afterwards
C32_Witness ==
    /\ last.op = "run"
    /\ last.allow_retry_failed
    /\ last.retried # {}
    /\ \A i \in last.retried : i \in Range(last.executed)
    /\ "allow_retry_failed_steps" \notin DOMAIN state.memory

\* a pass that started without the flag skipped a step whose result is a failure
C32_FailedStepSkipped ==
    /\ last.op = "run"
    /\ last.mode = "full"
    /\ last.blocked = 0
    /\ ~last.allow_retry_failed
    /\ \E i \in 1..Len(state.plan) :
          /\ i \notin Range(last.executed)
          /\ KeyOf(state, i) \in DOMAIN state.execution_results
          /\ state.execution_results[KeyOf(state, i)].success = FALSE

(***************************************************************************)
(* How often one step runs in a pipeline call (PipelineSpec).              *)
(***************************************************************************)
\* C33: within one run_full_pipeline call, in which nothing sets
\* allow_retry_failed_steps, each plan step is executed in the sandbox at most
\* max_retries + 1 times.
\* counted by plan position, and also by step id when several plan entries share one.
RECURSIVE ExecutionsOf(_, _)
ExecutionsOf(count, S) ==
    IF S = {} THEN 0
    ELSE LET i == CHOOSE x \in S : TRUE
         IN count[i] + ExecutionsOf(count, S \ {i})

C33_ExecutionsPerStepBounded ==
    \A i \in DOMAIN exec_count :
        /\ i \in 1..Len(state.plan)
        /\ exec_count[i] <= max_retries + 1
        /\ ExecutionsOf(exec_count,
                        {j \in DOMAIN exec_count : KeyOf(state, j) = KeyOf(state, i)})
              <= max_retries + 1

\* the pipeline got past the flag's removal without ever having seen the flag
C33_FlagNeverSet == "allow_retry_failed_steps" \notin DOMAIN state.memory

\* a step was executed max_retries + 1 times: once at first and once more after
\* every REPLAN that dropped its failed result
C33_Witness ==
    /\ state.retry_count = max_retries
    /\ \E i \in DOMAIN exec_count : exec_count[i] = max_retries + 1

(***************************************************************************)
(* The read-only allow-list (GatewaySpec).                                 *)
(***************************************************************************)
\* a dangerous or risky keyword occurs in the description
KeywordInDescription(step) ==
    \/ \E n \in 1..Len(DANGEROUS_KEYWORDS) :
          Contains(DANGEROUS_KEYWORDS[n], Lower(GetText(step, "description")))
    \/ RiskyKeywordInDescription(step)

\* the step of C34: an allow-listed tool, a description free of dangerous and
\* risky keywords, and no path outside the workspace
CleanAllowListedStep(step) ==
    /\ NormTool(step) \in SAFE_TOOLS
    /\ ~KeywordInDescription(step)
    /\ ~MentionsOutsidePath(step)
    /\ ~HasPathOutsideWorkspace(step)

\* C34: verify_step returns allowed with risk level SAFE for every step whose tool
\* is on the read-only allow-list (file_system_reader, file_reader,
\* log_frequency_analyzer, list_dir), whose description contains no dangerous or
\* risky keyword, and that mentions no path outside the workspace.
C34_CleanAllowListedStepIsSafe ==
    (last.op = "verify_step" /\ CleanAllowListedStep(last.step))
        => (last.result.allowed /\ last.result.risk_level = "SAFE")

\* what the code does for the allow-listed tools whose name holds no keyword
C34_KeywordFreeToolIsSafe ==
    (last.op = "verify_step" /\ CleanAllowListedStep(last.step)
       /\ ~HasDangerousKeyword(last.step) /\ ~MatchesRisky(last.step))
        => (last.result.allowed /\ last.result.risk_level = "SAFE")

\* the allow-listed tool file_system_reader with a clean description was refused as
\* DANGEROUS: its name contains the dangerous keyword "system"
C34_FileSystemReaderRefused ==
    /\ last.op = "verify_step"
    /\ CleanAllowListedStep(last.step)
    /\ last.step.tool = <<"f","i","l","e","_","s","y","s","t","e","m","_","r","e","a","d","e","r">>
    /\ last.result.risk_level = "DANGEROUS"
    /\ ~last.result.allowed

(***************************************************************************)
(* ABORT chosen by the strategist (ReplanSpec).                            *)
(***************************************************************************)
\* the most recent call was a recover in which the strategist was asked and the
\* strategy acted on was ABORT
StrategistAborted(call) ==
    call.op = "recover" /\ call.llm_called /\ call.strategy = "ABORT"

\* C35: when the strategist chooses ABORT, recover leaves an error that is already
\* set (a non-empty text) as it is and otherwise sets error to the strategist's
\* reason, the text recover has just stored as recovery_reason; plan,
\* execution_results and retry_count are unchanged.
C35_AbortKeepsSetError ==
    [][ StrategistAborted(last') =>
          /\ "recovery_reason" \in DOMAIN state'.memory
          /\ state'.error = IF Truthy(state.error) THEN state.error
                            ELSE state'.memory["recovery_reason"]
          /\ state'.plan = state.plan
          /\ state'.execution_results = state.execution_results
          /\ state'.retry_count = state.retry_count ]_vars

\* the strategist chose ABORT with one reason while the error of an earlier ABORT,
\* another reason, was set: the error is still the earlier one
C35_Witness ==
    /\ StrategistAborted(last)
    /\ state.memory["recovery_reason"] = "second_reason"
    /\ state.error = "strategist_reason"
    /\ state.plan # <<>>

\* the strategist chose ABORT while no error was set: the error is its reason
C35_ErrorSetToReason ==
    /\ StrategistAborted(last)
    /\ state.error = "second_reason"
    /\ state.memory["recovery_reason"] = "second_reason"

(***************************************************************************)
(* A lesson that cannot be persisted (PipelineSpec).                       *)
(***************************************************************************)
\* the step appended for the new step n of a reply, the largest id of the plan
\* being max_id and j the position of n in new_steps: n itself when it has an id
AppendedAs(step, n, max_id, j) ==
    /\ step.kind = n.kind
    /\ step.step_id = IF "step_id" \in DOMAIN n /\ n.step_id # NoneId
                      THEN n.step_id ELSE Id(max_id + j)

\* C36: if persisting the lesson fails during a REPLAN, recover still returns
\* REPLAN without raising, with the new steps of the reply appended to the plan in
\* order, the results of the steps whose verdict is FAILED dropped (and no other),
\* and retry_count incremented by one.
C36_PersistFailureIsHarmless ==
    [][ (last'.op = "recover" /\ last'.lesson = "failed") =>
          /\ last'.strategy = "REPLAN"
          /\ state'.retry_count = state.retry_count + 1
          /\ state'.current_phase = "recovery"
          /\ state'.verification_feedback = state.verification_feedback
          /\ IsPrefix(state.plan, state'.plan)
          /\ Len(state'.plan) = Len(state.plan) + Len(last'.new_steps)
          /\ \A j \in 1..Len(last'.new_steps) :
                AppendedAs(state'.plan[Len(state.plan) + j], last'.new_steps[j],
                           MaxStepId(state.plan)[1], j)
          /\ \A k \in DOMAIN state.execution_results :
                k \in DOMAIN state'.execution_results
                   <=> ~(k \in DOMAIN state.verification_feedback
                         /\ state.verification_feedback[k].status = "FAILED")
          /\ \A k \in DOMAIN state'.execution_results :
                /\ k \in DOMAIN state.execution_results
                /\ state'.execution_results[k] = state.execution_results[k] ]_vars

\* persisting failed in a REPLAN that appended a step without an id, dropped the
\* result of a failed step, kept the result of another and raised retry_count
C36_Witness ==
    /\ last.op = "recover"
    /\ last.lesson = "failed"
    /\ last.strategy = "REPLAN"
    /\ state.retry_count = 1
    /\ Len(last.new_steps) >= 1
    /\ "step_id" \notin DOMAIN last.new_steps[1]
    /\ last.dropped # {}
    /\ DOMAIN state.execution_results # {}
    /\ state.current_phase = "recovery"

(***************************************************************************)
(* One exec at a time (DockerSpec).                                        *)
(***************************************************************************)
\* the number of _run bodies going on: the current call's and those left behind
InFlight(st) == (IF WorkerBusy(st) THEN 1 ELSE 0) + st.abandoned

\* C37: for one caller invoking execute_python / execute_shell one after the other
\* on one DockerManager, at most one container exec is in flight at any time, and a
\* call never starts while the work of an earlier call, one that timed out
\* included, is still going on.
C37_OneExecInFlight ==
    [][ /\ InFlight(state') <= 1
        /\ last'.op = "submit" => InFlight(state) = 0 ]_vars

\* after a call that timed out has returned, the exec of a later call is in flight,
\* alone
C37_Witness ==
    /\ state.timed_out
    /\ state.worker = "exec"
    /\ state.caller = "waiting"
    /\ InFlight(state) = 1

(***************************************************************************)
(* Retries of the model call (LlmSpec).                                    *)
(***************************************************************************)
\* the HTTP status an error text begins with
StatusOf(o) == IF o.kind = "error" THEN SubSeq(o.text, 1, 3) ELSE <<>>

\* the model call failed with a 429 or a 5xx error
RateOrServerError(o) ==
    o.kind = "error" /\ (StatusOf(o) = <<"4","2","9">> \/ StatusOf(o)[1] = "5")

\* the model call failed with a 404 / not-found error
NotFoundError(o) == o.kind = "error" /\ StatusOf(o) = <<"4","0","4">>

\* generate has returned the local fallback after model calls that all failed with
\* a 429 or 5xx error
FellBackOnRateOrServerErrors ==
    /\ pc = "llm"
    /\ state.done = "returned" /\ state.value = "fallback"
    /\ state.seen # <<>>
    /\ \A k \in 1..Len(state.seen) : RateOrServerError(state.seen[k])

\* C38: when the model call fails with a 429 or 5xx error, generate retries it with
\* backoff until a call succeeds or max_retries attempts have been made, and only
\* then returns the local fallback; it never makes more than max_retries attempts.
C38_RetriesBeforeFallback ==
    /\ pc = "llm" => state.calls <= llm_max_retries
    /\ FellBackOnRateOrServerErrors =>
          /\ Len(state.seen) = llm_max_retries
          /\ Len(state.waits) = llm_max_retries - 1

\* the part of C38 the code keeps: never more than max_retries attempts, one sleep
\* between two attempts, and the local fallback after max_retries failed attempts
C38_AttemptsBounded ==
    pc = "llm" =>
        /\ state.calls <= llm_max_retries
        /\ state.attempt <= llm_max_retries
        /\ state.done = "running" => Len(state.waits) = Len(state.seen)
        /\ (state.calls = llm_max_retries /\ state.done = "returned"
              /\ state.seen[llm_max_retries].kind # "text")
             => state.value = "fallback"

\* a single model call failed with 429 and generate returned the local fallback
\* at once, without a sleep or a second attempt
C38_NoRetryAfter429 ==
    /\ FellBackOnRateOrServerErrors
    /\ StatusOf(state.seen[1]) = <<"4","2","9">>
    /\ state.calls = 1
    /\ state.waits = <<>>

\* an attempt of generate was followed by a sleep and another attempt
Retried(k) == k < Len(state.seen)

\* C39: a 404 / not-found error from the model call is never retried: generate
\* raises after that single attempt and makes no further model call; and retries
\* happen only for 429, 5xx and timeout errors.
C39_RetryOnlyRateServerTimeout ==
    pc = "llm" =>
        /\ \A k \in 1..Len(state.seen) :
              NotFoundError(state.seen[k]) =>
                 (k = Len(state.seen) /\ state.done = "raised")
        /\ \A k \in 1..Len(state.seen) :
              Retried(k) =>
                 (RateOrServerError(state.seen[k]) \/ state.seen[k].kind = "timeout")

\* the part of C39 the code keeps: a 404 ends generate with an error at once
C39_NotFoundRaisesAtOnce ==
    pc = "llm" =>
        /\ \A k \in 1..Len(state.seen) :
              NotFoundError(state.seen[k]) =>
                 (k = Len(state.seen) /\ state.done = "raised"
                    /\ state.calls = k /\ Len(state.waits) = k - 1)
        /\ state.done = "raised" => NotFoundError(state.seen[Len(state.seen)])

\* a model call that failed with 401 was followed by a sleep and another attempt
C39_RetryAfter401 ==
    /\ pc = "llm"
    /\ Len(state.seen) >= 2
    /\ StatusOf(state.seen[1]) = <<"4","0","1">>
    /\ state.waits[1] = 1

(***************************************************************************)
(* The cap of the lesson store (MemorySpec).                               *)
(***************************************************************************)
\* the n most recent entries of q, in order
MostRecent(q, n) == [k \in 1..(IF n < Len(q) THEN n ELSE Len(q)) |->
                        q[Len(q) - (IF n < Len(q) THEN n ELSE Len(q)) + k]]

\* C40: after any sequence of append_lesson calls with cap N >= 1, lessons_learned
\* holds at most N entries and they are the most recently appended ones in append
\* order, the oldest evicted first; the other keys of the store (successful_plans,
\* intent_cache) are as they were. The sequence starts at the first file or at
\* the file another writer left.
C40_CapKeepsMostRecent ==
    (pc = "memory" /\ state.since >= 1 /\ state.cap >= 1) =>
        /\ state.store.file = "json"
        /\ "lessons_learned" \in DOMAIN state.store.data
        /\ state.store.data["lessons_learned"].is_list
        /\ Len(LoadLessons(state.store)) <= state.cap
        /\ LoadLessons(state.store) = MostRecent(state.history, state.cap)
        /\ \A k \in MemOtherKeys :
              /\ k \in DOMAIN state.store.data <=> k \in DOMAIN LoadRaw(state.first)
              /\ k \in DOMAIN state.store.data => state.store.data[k] = state.first.data[k]
        /\ DOMAIN state.store.data \subseteq MemOtherKeys \cup {"lessons_learned"}

\* with cap 2, a file holding three lessons and the other two keys has had two
\* lessons appended: the oldest were evicted
C40_Witness ==
    /\ pc = "memory"
    /\ state.cap = 2
    /\ state.since = 2
    /\ Len(state.history) = 5
    /\ LoadLessons(state.store) = <<state.history[4], state.history[5]>>
    /\ state.history[4] # state.history[5]
    /\ MemOtherKeys \subseteq DOMAIN state.store.data

\* with cap 0 nothing is evicted: q[-0:] is the whole list
C40_CapZeroKeepsAll ==
    /\ pc = "memory"
    /\ state.cap = 0
    /\ state.since = MemMaxAppends
    /\ LoadLessons(state.store) = state.history
    /\ Len(state.history) > MemMaxAppends

====
